---- MODULE Spec2Model ----
(***************************************************************************)
(* Model of the inventory ledger of services/repo.py: the tables           *)
(* inventory_levels, transfers_confirmed and orders_confirmed, and the two *)
(* mutating operations save_orders and save_transfers, each run inside one *)
(* `with engine.begin() as conn` transaction on the SQLite or PostgreSQL   *)
(* dialect.                                                                *)
(*                                                                         *)
(* A call is a record `l` of the handler's local variables (position, the  *)
(* rows still to process, the counters) and a view `v` of the three tables *)
(* as its connection sees them.  StepCall executes the next statement of   *)
(* the handler.  Spec interleaves the statements of several callers (row   *)
(* locks, uncommitted writes, commit and rollback); SpecSeq runs one whole *)
(* call after the other.                                                   *)
(***************************************************************************)
EXTENDS Integers, Sequences, FiniteSets, TLC

\* ---------------------------------------------------------------- bounds
MaxQty == 2        \* quantities of the input rows range over 0..MaxQty
MaxRows == 2       \* rows per batch
MaxOnHand == 1     \* seeded on_hand of a ledger row
MaxCalls == 2      \* calls started in one behaviour of Spec
MaxSeqCalls == 2   \* calls made in one behaviour of SpecSeq

Orgs == {"org1"}
Stores == {"A", "B"}
Skus == {"K1"}
Prefixes == {"p1", "p2"}
Callers == {"c1", "c2"}
Dialects == {"sqlite", "postgresql"}

VARIABLES
    dialect,              \* engine.dialect.name
    inventory_levels,     \* committed ledger: <<org, store, sku>> -> on_hand
    transfers_confirmed,  \* committed TransferRecords
    orders_confirmed,     \* committed OrderRecords
    proc,                 \* per caller: the call in progress and its open transaction
    ncalls,               \* calls started so far
    counted,              \* per ledger key: qty counted applied in minus out, over returned calls
    seed,                 \* the ledger as seeded (never changes)
    last,                 \* SpecSeq: the last whole call (arguments, outcome, tables before)
    given,                \* the arguments of the planning function under study
    result,               \* what that function returned
    session,              \* per browser session: where its run of main() stands
    events,               \* the events table: committed rows and the id counter
    inserting,            \* per writer: the row its open insert_event transaction holds
    client                \* the polling client: its cursor and what it was returned

vars == <<dialect, inventory_levels, transfers_confirmed, orders_confirmed,
          proc, ncalls, counted, seed, last, given, result, session, events, inserting, client>>

\* the stores of a batch that routes stock through a third store
BatchStores == Stores \cup {"C"}

LedgerKeys == Orgs \X BatchStores \X Skus

\* ------------------------------------------------------------ input rows
\* What a row's dict holds under "qty": qty_as is the kind of Python value and
\* qty its number: an int qty, the decimal string of qty ("str"), the float
\* qty + 0.5 ("float"), None, float('nan'), a string that is no number ("text"),
\* or nothing at all ("missing": the dict has no such key).
\* rows of save_transfers: dicts with from_store, to_store, sku_id, qty
TransferRows == [from_store : Stores, to_store : Stores, sku_id : Skus,
                 qty : 0..MaxQty, qty_as : {"int"}]
\* rows of save_orders: dicts with store_id, sku_id, qty
OrderRows == [store_id : Stores, sku_id : Skus, qty : 0..MaxQty, qty_as : {"int"}]

SeqsUpTo(S, n) == UNION {[1..k -> S] : k \in 1..n}

TransferBatches == SeqsUpTo(TransferRows, MaxRows)
OrderBatches == SeqsUpTo(OrderRows, MaxRows)

\* ------------------------------------------------------------ statements
\* qty = r.get("qty", 0)
QtyGiven(r) == IF r.qty_as = "missing" THEN [qty |-> 0, qty_as |-> "int"]
               ELSE [qty |-> r.qty, qty_as |-> r.qty_as]

\* int(qty) returns: it raises ValueError on a string that is no integer and on nan
IntConverts(q) == q.qty_as \in {"int", "str", "float"}

\* int(qty): a float is truncated toward zero
IntOf(q) == IF q.qty_as = "float" /\ q.qty < 0 THEN q.qty + 1 ELSE q.qty

\* the local qty of the loop body, after `qty = int(qty)`
Qty(r) == IntOf(QtyGiven(r))

\* f"{idem_prefix}:transfer:{from_store}:{to_store}:{sku_id}"
TransferIdemKey(prefix, r) == <<prefix, "transfer", r.from_store, r.to_store, r.sku_id>>

\* f"{idem_prefix}:order:{r['store_id']}:{r['sku_id']}"
OrderIdemKey(prefix, r) == <<prefix, "order", r.store_id, r.sku_id>>

TransferPayload(org, prefix, r) ==
    [org_id |-> org, from_store |-> r.from_store, to_store |-> r.to_store,
     sku_id |-> r.sku_id, qty |-> Qty(r), idem_key |-> TransferIdemKey(prefix, r)]

OrderPayload(org, prefix, r) ==
    [org_id |-> org, store_id |-> r.store_id, sku_id |-> r.sku_id,
     qty |-> Qty(r), idem_key |-> OrderIdemKey(prefix, r)]

\* UniqueConstraint uq_transfers_idem
TransferUq(t) == <<t.org_id, t.from_store, t.to_store, t.sku_id, t.idem_key>>

\* UniqueConstraint uq_orders_idem
OrderUq(o) == <<o.org_id, o.store_id, o.sku_id, o.idem_key>>

\* mutant: the unique constraint never reports a conflict
NoTransferConflict(tbl, payload) == FALSE

TransferConflict(tbl, payload) == \E t \in tbl : TransferUq(t) = TransferUq(payload)

OrderConflict(tbl, payload) == \E o \in tbl : OrderUq(o) = OrderUq(payload)

\* the row check at the top of both loops: qty None, not convertible, or <= 0
QtyOk(r) ==
    LET q == QtyGiven(r)
    IN  q.qty_as # "None" /\ IntConverts(q) /\ IntOf(q) > 0

\* _ensure_key: INSERT ... VALUES (..., 0, ...) ON CONFLICT DO NOTHING
EnsureKey(inv, k) ==
    IF k \in DOMAIN inv THEN inv ELSE [x \in DOMAIN inv \cup {k} |-> IF x = k THEN 0 ELSE inv[x]]

\* the WHERE clause of the decrement: the row of the key with on_hand >= :qty
DecrementMatches(inv, k, qty) == k \in DOMAIN inv /\ inv[k] >= qty

\* mutant: the decrement decides on the on_hand the ledger had before the batch
DecrementAgainstSeed(inv, k, qty) ==
    IF k \in DOMAIN seed /\ seed[k] >= qty
    THEN [rowcount |-> 1, inv |-> [inv EXCEPT ![k] = @ - qty]]
    ELSE [rowcount |-> 0, inv |-> inv]

\* mutant: the decrement without `AND on_hand >= :qty`
DecrementUnguarded(inv, k, qty) ==
    IF k \in DOMAIN inv
    THEN [rowcount |-> 1, inv |-> [inv EXCEPT ![k] = @ - qty]]
    ELSE [rowcount |-> 0, inv |-> inv]

\* UPDATE inventory_levels SET on_hand = on_hand - :qty WHERE ... AND on_hand >= :qty
Decrement(inv, k, qty) ==
    IF DecrementMatches(inv, k, qty)
    THEN [rowcount |-> 1, inv |-> [inv EXCEPT ![k] = @ - qty]]
    ELSE [rowcount |-> 0, inv |-> inv]

\* mutant: the upsert overwrites on_hand (SET on_hand = excluded.on_hand, as the seeder does)
UpsertOverwrite(inv, k, qty) ==
    [x \in DOMAIN inv \cup {k} |-> IF x = k THEN qty ELSE inv[x]]

\* INSERT ... VALUES (..., :qty, ...) ON CONFLICT DO UPDATE SET on_hand = on_hand + excluded.on_hand
UpsertAdd(inv, k, qty) ==
    IF k \in DOMAIN inv
    THEN [inv EXCEPT ![k] = @ + qty]
    ELSE [x \in DOMAIN inv \cup {k} |-> IF x = k THEN qty ELSE inv[x]]

\* ------------------------------------------------------- one call's steps
\* A call's local variables.  pc is the statement to execute next; rows are the
\* input rows not yet finished (the row in progress is Head(rows)); failed says
\* that a statement of this transaction has failed on PostgreSQL, which then
\* rejects every later statement until the transaction ends; began says that the
\* connection has executed a statement (on SQLite it holds the write lock);
\* moved is, per ledger key, the quantity of the rows counted as applied so far
\* (into the key minus out of it).
ZeroMoved == [k \in LedgerKeys |-> 0]

\* no planning function has been called
NoInput == [fn |-> "none"]

NoResult == [fn |-> "none"]

\* no browser session is open
NoSessions == [s \in Callers |-> "none"]

\* the events table before any event, its id counter at zero
NoEvents == [rows |-> {}, seq |-> 0]

\* the connections that run insert_event
Writers == {"w1", "w2"}

\* a connection with no transaction open
NoEvent == [id |-> 0, org_id |-> "none"]

NoInserts == [w \in Writers |-> NoEvent]

\* a client that has not polled: cursor 0, nothing returned
NoClient == [cursor |-> 0, evs |-> <<>>, got |-> <<>>, ok |-> TRUE]

IdleCall ==
    [pc |-> "idle", op |-> "none", org_id |-> "none", idem_prefix |-> "none",
     rows |-> <<>>,
     applied |-> 0, dup |-> 0, insufficient |-> 0, nuevos |-> 0, duplicados |-> 0,
     failed |-> FALSE, began |-> FALSE, error |-> "none", moved |-> ZeroMoved]

\* entry of save_orders / save_transfers: counters at zero, `with engine.begin()`
NewCall(op, org, prefix, rows) ==
    [IdleCall EXCEPT !.pc = "insert", !.op = op, !.org_id = org,
                     !.idem_prefix = prefix, !.rows = rows]

\* continue / end of the loop body: on to the next row
NextRow(l) == [l EXCEPT !.pc = "insert", !.rows = Tail(@)]

\* a statement sent on a PostgreSQL transaction that is already aborted
RaiseAborted(l) ==
    [IdleCall EXCEPT !.pc = "raised", !.op = l.op, !.error = "InFailedSqlTransaction"]

\* what an IntegrityError leaves behind: SQLite undoes the statement only,
\* PostgreSQL aborts the transaction
AfterIntegrityError(l, d) == [l EXCEPT !.failed = (d = "postgresql"), !.began = TRUE]

\* mutant: save_transfers without `if from_store == to_store: continue`
TransferRowSkippedOnQtyOnly(r) == ~QtyOk(r)

\* the rows save_transfers skips before any statement
TransferRowSkipped(r) == ~QtyOk(r) \/ r.from_store = r.to_store

FromKey(l) == <<l.org_id, Head(l.rows).from_store, Head(l.rows).sku_id>>

ToKey(l) == <<l.org_id, Head(l.rows).to_store, Head(l.rows).sku_id>>

\* mutant: save_orders adds the quantity of an inserted order to the ledger
StepOrdersAddingStock(l, v, d) ==
    IF l.rows = <<>> THEN [l |-> [l EXCEPT !.pc = "commit"], v |-> v]
    ELSE LET r == Head(l.rows)
             payload == OrderPayload(l.org_id, l.idem_prefix, r)
         IN  IF ~QtyOk(r) THEN [l |-> NextRow(l), v |-> v]
             ELSE IF l.failed THEN [l |-> RaiseAborted(l), v |-> v]
             ELSE IF OrderConflict(v.ords, payload)
                  THEN [l |-> NextRow([AfterIntegrityError(l, d) EXCEPT !.duplicados = @ + 1]),
                        v |-> v]
                  ELSE [l |-> NextRow([l EXCEPT !.nuevos = @ + 1, !.began = TRUE]),
                        v |-> [v EXCEPT !.ords = @ \cup {payload},
                                        !.inv = UpsertAdd(@, <<l.org_id, r.store_id, r.sku_id>>,
                                                          Qty(r))]]

\* save_orders, one iteration of `for r in rows` (or the end of the loop)
StepOrders(l, v, d) ==
    IF l.rows = <<>> THEN [l |-> [l EXCEPT !.pc = "commit"], v |-> v]
    ELSE LET r == Head(l.rows)
             payload == OrderPayload(l.org_id, l.idem_prefix, r)
         IN  IF ~QtyOk(r) THEN [l |-> NextRow(l), v |-> v]
             ELSE IF l.failed THEN [l |-> RaiseAborted(l), v |-> v]
             ELSE IF OrderConflict(v.ords, payload)
                  THEN [l |-> NextRow([AfterIntegrityError(l, d) EXCEPT !.duplicados = @ + 1]),
                        v |-> v]
                  ELSE [l |-> NextRow([l EXCEPT !.nuevos = @ + 1, !.began = TRUE]),
                        v |-> [v EXCEPT !.ords = @ \cup {payload}]]

\* save_transfers at the top of the loop: the row checks and 1) the insert of the record
StepInsertTransfer(l, v, d) ==
    IF l.rows = <<>> THEN [l |-> [l EXCEPT !.pc = "commit"], v |-> v]
    ELSE LET r == Head(l.rows)
             payload == TransferPayload(l.org_id, l.idem_prefix, r)
         IN  IF TransferRowSkipped(r) THEN [l |-> NextRow(l), v |-> v]
             ELSE IF l.failed THEN [l |-> RaiseAborted(l), v |-> v]
             ELSE IF TransferConflict(v.trs, payload)
                  THEN [l |-> NextRow([AfterIntegrityError(l, d) EXCEPT !.dup = @ + 1]),
                        v |-> v]
                  ELSE [l |-> [l EXCEPT !.pc = "ensure_from", !.began = TRUE],
                        v |-> [v EXCEPT !.trs = @ \cup {payload}]]

\* 2) _ensure_key(from_store, sku_id); _ensure_key(to_store, sku_id)
StepEnsureFrom(l, v) ==
    [l |-> [l EXCEPT !.pc = "ensure_to"], v |-> [v EXCEPT !.inv = EnsureKey(@, FromKey(l))]]

StepEnsureTo(l, v) ==
    [l |-> [l EXCEPT !.pc = "decr"], v |-> [v EXCEPT !.inv = EnsureKey(@, ToKey(l))]]

\* mutant: the insufficient branch counts the row and falls through to the increment
StepDecrementNoContinue(l, v) ==
    LET res == Decrement(v.inv, FromKey(l), Qty(Head(l.rows)))
    IN  IF res.rowcount # 1
        THEN [l |-> [l EXCEPT !.insufficient = @ + 1, !.pc = "incr"], v |-> v]
        ELSE [l |-> [l EXCEPT !.pc = "incr"], v |-> [v EXCEPT !.inv = res.inv]]

\* 3) the conditional decrement and `if res.rowcount != 1`
StepDecrement(l, v) ==
    LET res == Decrement(v.inv, FromKey(l), Qty(Head(l.rows)))
    IN  IF res.rowcount # 1
        THEN [l |-> NextRow([l EXCEPT !.insufficient = @ + 1]), v |-> v]
        ELSE [l |-> [l EXCEPT !.pc = "incr"], v |-> [v EXCEPT !.inv = res.inv]]

\* 4) the upsert into the destination and `applied += 1`
StepIncrement(l, v) ==
    LET q == Qty(Head(l.rows))
    IN  [l |-> NextRow([l EXCEPT !.applied = @ + 1,
                                 !.moved = [@ EXCEPT ![FromKey(l)] = @ - q, ![ToKey(l)] = @ + q]]),
         v |-> [v EXCEPT !.inv = UpsertAdd(@, ToKey(l), q)]]

StepTransfers(l, v, d) ==
    CASE l.pc = "insert" -> StepInsertTransfer(l, v, d)
      [] l.pc = "ensure_from" -> StepEnsureFrom(l, v)
      [] l.pc = "ensure_to" -> StepEnsureTo(l, v)
      [] l.pc = "decr" -> StepDecrement(l, v)
      [] l.pc = "incr" -> StepIncrement(l, v)

\* the next statement of a call that is inside its `with engine.begin()` block
StepCall(l, v, d) == IF l.op = "orders" THEN StepOrders(l, v, d) ELSE StepTransfers(l, v, d)

InBlock(l) == l.pc \in {"insert", "ensure_from", "ensure_to", "decr", "incr"}

\* leaving the `with` block normally: COMMIT.  PostgreSQL answers the COMMIT of
\* an aborted transaction with a rollback and no error.
Committed(l, pre, v) == IF l.failed THEN pre ELSE v

\* the handler's return statement: its locals are gone, the counters are the result
Returned(l) ==
    [IdleCall EXCEPT !.pc = "returned", !.op = l.op,
                     !.applied = l.applied, !.dup = l.dup, !.insufficient = l.insufficient,
                     !.nuevos = l.nuevos, !.duplicados = l.duplicados]

\* an infrastructure error inside the block: it propagates and `with` rolls back
Interrupted(l) == [IdleCall EXCEPT !.pc = "raised", !.op = l.op, !.error = "OperationalError"]

\* --------------------------------------------------- concurrent callers
\* The committed tables, as one record.
Tables == [inv |-> inventory_levels, trs |-> transfers_confirmed, ords |-> orders_confirmed]

NoWrites == [winv |-> <<>>, wtrs |-> {}, words |-> {}]

\* what the connection of caller p sees: the committed tables (READ COMMITTED,
\* read at each statement) under the caller's own uncommitted writes
View(p) ==
    LET w == proc[p].w
    IN  [inv |-> [k \in DOMAIN inventory_levels \cup DOMAIN w.winv |->
                     IF k \in DOMAIN w.winv THEN w.winv[k] ELSE inventory_levels[k]],
         trs |-> transfers_confirmed \cup w.wtrs,
         ords |-> orders_confirmed \cup w.words]

\* the uncommitted writes of p after a statement that turned its view v into nv
WritesAfter(w, v, nv) ==
    [winv |-> [k \in {x \in DOMAIN nv.inv :
                        x \in DOMAIN w.winv \/ x \notin DOMAIN v.inv \/ nv.inv[x] # v.inv[x]}
                 |-> nv.inv[k]],
     wtrs |-> w.wtrs \cup (nv.trs \ v.trs),
     words |-> w.words \cup (nv.ords \ v.ords)]

Others(p) == Callers \ {p}

\* the call sends a statement to the database at its next step
SendsStatement(l) ==
    \/ l.pc \in {"ensure_from", "ensure_to", "decr", "incr"}
    \/ /\ l.pc = "insert"
       /\ l.rows # <<>>
       /\ IF l.op = "orders" THEN QtyOk(Head(l.rows)) ELSE ~TransferRowSkipped(Head(l.rows))

\* SQLite: one writer at a time, from a connection's first statement to the end
\* of its transaction
HoldsWriteLock(q) == proc[q].l.began /\ (InBlock(proc[q].l) \/ proc[q].l.pc = "commit")

\* PostgreSQL: a ledger row written by another open transaction is locked
RowLocked(p, k) == \E q \in Others(p) : k \in DOMAIN proc[q].w.winv

\* PostgreSQL: the next statement of p has to wait for another transaction to end
WaitsForRow(p) ==
    LET l == proc[p].l
        own == DOMAIN proc[p].w.winv
    IN  CASE l.pc = "insert" ->
               /\ ~l.failed
               /\ IF l.op = "orders"
                  THEN \E q \in Others(p) :
                          OrderConflict(proc[q].w.words,
                                        OrderPayload(l.org_id, l.idem_prefix, Head(l.rows)))
                  ELSE \E q \in Others(p) :
                          TransferConflict(proc[q].w.wtrs,
                                           TransferPayload(l.org_id, l.idem_prefix, Head(l.rows)))
          [] l.pc = "ensure_from" ->
               FromKey(l) \notin DOMAIN inventory_levels /\ RowLocked(p, FromKey(l))
          [] l.pc = "ensure_to" ->
               ToKey(l) \notin DOMAIN inventory_levels /\ RowLocked(p, ToKey(l))
          [] l.pc = "decr" ->
               /\ FromKey(l) \notin own
               /\ DecrementMatches(inventory_levels, FromKey(l), Qty(Head(l.rows)))
               /\ RowLocked(p, FromKey(l))
          [] l.pc = "incr" -> ToKey(l) \notin own /\ RowLocked(p, ToKey(l))

Waits(p) ==
    /\ SendsStatement(proc[p].l)
    /\ IF dialect = "sqlite" THEN \E q \in Others(p) : HoldsWriteLock(q) ELSE WaitsForRow(p)

Args(op, org, prefix, rows) == [op |-> op, org_id |-> org, idem_prefix |-> prefix, rows |-> rows]

NoArgs == Args("none", "none", "none", <<>>)

LedgersOver(S) == UNION {[K -> 0..MaxOnHand] : K \in SUBSET (Orgs \X S \X Skus)}

Ledgers == LedgersOver(Stores)

Init ==
    /\ dialect \in Dialects
    /\ inventory_levels \in Ledgers
    /\ transfers_confirmed = {}
    /\ orders_confirmed = {}
    /\ proc = [p \in Callers |-> [l |-> IdleCall, w |-> NoWrites, fed |-> 0]]
    /\ ncalls = 0
    /\ counted = ZeroMoved
    /\ seed = inventory_levels
    /\ last = [args |-> NoArgs, out |-> IdleCall, pre |-> Tables, moved |-> ZeroMoved,
               repeat |-> FALSE, first |-> IdleCall]
    /\ given = NoInput
    /\ result = NoResult
    /\ session = NoSessions
    /\ events = NoEvents
    /\ inserting = NoInserts
    /\ client = NoClient

\* The rows the concurrent callers submit: the rows that pass the checks at the
\* top of the loop.  A skipped row executes no statement, so it neither waits for
\* nor affects another caller; SpecSeq runs the batches that contain such rows.
SentTransferRows == {r \in TransferRows : ~TransferRowSkipped(r)}

\* a caller enters save_transfers.  The rows of its batch are drawn one at a
\* time, each when the loop reaches it (NextInput): fed counts the rows drawn.
BeginCall(p, org, prefix, r) ==
    /\ ~InBlock(proc[p].l) /\ proc[p].l.pc # "commit"
    /\ ncalls < MaxCalls
    /\ proc' = [proc EXCEPT ![p] =
                   [l |-> NewCall("transfers", org, prefix, <<r>>), w |-> NoWrites, fed |-> 1]]
    /\ ncalls' = ncalls + 1
    /\ UNCHANGED <<dialect, inventory_levels, transfers_confirmed, orders_confirmed,
                   counted, seed, last, given, result, session, events, inserting, client>>

\* `for r in rows`: the batch has one more row
NextInput(p, r) ==
    /\ proc[p].l.pc = "insert" /\ proc[p].l.rows = <<>>
    /\ proc[p].fed < MaxRows
    /\ proc' = [proc EXCEPT ![p].l.rows = <<r>>, ![p].fed = @ + 1]
    /\ UNCHANGED <<dialect, inventory_levels, transfers_confirmed, orders_confirmed,
                   ncalls, counted, seed, last, given, result, session, events, inserting, client>>

\* the call of p executes its next statement; an exception leaves the `with`
\* block, which rolls the transaction back
Statement(p) ==
    /\ InBlock(proc[p].l)
    /\ ~Waits(p)
    /\ \E v \in {View(p)} : \E s \in {StepCall(proc[p].l, v, dialect)} :
           proc' = [proc EXCEPT ![p].l = s.l,
                                ![p].w = IF s.l.pc = "raised" THEN NoWrites
                                         ELSE WritesAfter(proc[p].w, v, s.v),
                                ![p].fed = IF s.l.pc = "raised" THEN 0 ELSE @]
    /\ UNCHANGED <<dialect, inventory_levels, transfers_confirmed, orders_confirmed,
                   ncalls, counted, seed, last, given, result, session, events, inserting, client>>

\* the `with` block ends and the handler returns its counters
Commit(p) ==
    /\ proc[p].l.pc = "commit"
    /\ \E c \in {Committed(proc[p].l, Tables, View(p))} :
           /\ inventory_levels' = c.inv
           /\ transfers_confirmed' = c.trs
           /\ orders_confirmed' = c.ords
    /\ proc' = [proc EXCEPT ![p].l = Returned(proc[p].l), ![p].w = NoWrites, ![p].fed = 0]
    /\ counted' = [k \in LedgerKeys |-> counted[k] + proc[p].l.moved[k]]
    /\ UNCHANGED <<dialect, ncalls, seed, last, given, result, session, events, inserting, client>>

\* an infrastructure failure (connection lost, lock timeout, deadlock victim)
\* at a statement or at the COMMIT: the exception propagates, nothing is committed
Fail(p) ==
    /\ InBlock(proc[p].l) \/ proc[p].l.pc = "commit"
    /\ proc' = [proc EXCEPT ![p].l = Interrupted(proc[p].l), ![p].w = NoWrites, ![p].fed = 0]
    /\ UNCHANGED <<dialect, inventory_levels, transfers_confirmed, orders_confirmed,
                   ncalls, counted, seed, last, given, result, session, events, inserting, client>>

Next ==
    \/ \E p \in Callers, org \in Orgs, prefix \in Prefixes, r \in SentTransferRows :
          BeginCall(p, org, prefix, r)
    \/ \E p \in Callers, r \in SentTransferRows : NextInput(p, r)
    \/ \E p \in Callers : Statement(p)
    \/ \E p \in Callers : Commit(p)
    \/ \E p \in Callers : Fail(p)

Spec == Init /\ [][Next]_vars

\* ------------------------------------------------ one call after the other
\* the statements of a call run to the end of its `with` block
RECURSIVE RunCall(_, _, _)
RunCall(l, v, d) ==
    IF InBlock(l) THEN LET s == StepCall(l, v, d) IN RunCall(s.l, s.v, d) ELSE [l |-> l, v |-> v]

\* a whole call of save_orders or save_transfers on the committed tables:
\* its outcome (counters returned, or the exception) and the tables it leaves
WholeCall(op, org, prefix, rows, pre, d) ==
    LET r == RunCall(NewCall(op, org, prefix, rows), pre, d)
    IN  IF r.l.pc = "commit"
        THEN [out |-> Returned(r.l), moved |-> r.l.moved, tables |-> Committed(r.l, pre, r.v)]
        ELSE [out |-> r.l, moved |-> ZeroMoved, tables |-> pre]

InitSeq ==
    /\ dialect \in Dialects
    /\ inventory_levels \in Ledgers
    /\ transfers_confirmed = {}
    /\ orders_confirmed = {}
    /\ proc = [p \in Callers |-> [l |-> IdleCall, w |-> NoWrites, fed |-> 0]]
    /\ ncalls = 0
    /\ counted = ZeroMoved
    /\ seed = inventory_levels
    /\ last = [args |-> NoArgs, out |-> IdleCall, pre |-> Tables, moved |-> ZeroMoved,
               repeat |-> FALSE, first |-> IdleCall]
    /\ given = NoInput
    /\ result = NoResult
    /\ session = NoSessions
    /\ events = NoEvents
    /\ inserting = NoInserts
    /\ client = NoClient

\* one call, from entry to return (or exception), with nobody else writing.
\* repeat says that the call has the arguments of the call before it, whose
\* outcome is kept in first.
Call(op, org, prefix, rows) ==
    /\ ncalls < MaxSeqCalls
    /\ \E c \in {WholeCall(op, org, prefix, rows, Tables, dialect)},
          a \in {Args(op, org, prefix, rows)} :
           /\ inventory_levels' = c.tables.inv
           /\ transfers_confirmed' = c.tables.trs
           /\ orders_confirmed' = c.tables.ords
           /\ counted' = [k \in LedgerKeys |-> counted[k] + c.moved[k]]
           /\ last' = [args |-> a, out |-> c.out, pre |-> Tables, moved |-> c.moved,
                       repeat |-> (a = last.args),
                       first |-> IF a = last.args THEN last.out ELSE IdleCall]
    /\ ncalls' = ncalls + 1
    /\ UNCHANGED <<dialect, proc, seed, given, result, session, events, inserting, client>>

SaveOrders(org, prefix, rows) == Call("orders", org, prefix, rows)

SaveTransfers(org, prefix, rows) == Call("transfers", org, prefix, rows)

NextSeq ==
    \/ \E org \in Orgs, prefix \in Prefixes, rows \in OrderBatches : SaveOrders(org, prefix, rows)
    \/ \E org \in Orgs, prefix \in Prefixes, rows \in TransferBatches :
          SaveTransfers(org, prefix, rows)

SpecSeq == InitSeq /\ [][NextSeq]_vars

\* ------------------------------------------------ one batch, three stores
\* rows of save_transfers between three stores
BatchRows == [from_store : BatchStores, to_store : BatchStores, sku_id : Skus,
              qty : 0..MaxQty, qty_as : {"int"}]

InitBatch ==
    /\ dialect \in Dialects
    /\ inventory_levels \in LedgersOver(BatchStores)
    /\ transfers_confirmed = {}
    /\ orders_confirmed = {}
    /\ proc = [p \in Callers |-> [l |-> IdleCall, w |-> NoWrites, fed |-> 0]]
    /\ ncalls = 0
    /\ counted = ZeroMoved
    /\ seed = inventory_levels
    /\ last = [args |-> NoArgs, out |-> IdleCall, pre |-> Tables, moved |-> ZeroMoved,
               repeat |-> FALSE, first |-> IdleCall]
    /\ given = NoInput
    /\ result = NoResult
    /\ session = NoSessions
    /\ events = NoEvents
    /\ inserting = NoInserts
    /\ client = NoClient

\* the first save_transfers call on a seeded ledger
SaveTransfersBatch(org, prefix, rows) == ncalls = 0 /\ SaveTransfers(org, prefix, rows)

NextBatch ==
    \E org \in Orgs, prefix \in Prefixes, rows \in SeqsUpTo(BatchRows, MaxRows) :
        SaveTransfersBatch(org, prefix, rows)

SpecBatch == InitBatch /\ [][NextBatch]_vars

\* ------------------------------------------- one batch, any kind of qty
\* what the dict of a row may hold under "qty"
RawQtys ==
    [qty : -1..MaxQty, qty_as : {"int", "str", "float"}]
        \cup [qty : {0}, qty_as : {"None", "nan", "text", "missing"}]

RawRows ==
    {[from_store |-> f, to_store |-> t, sku_id |-> k, qty |-> q.qty, qty_as |-> q.qty_as] :
        f \in Stores, t \in Stores, k \in Skus, q \in RawQtys}

NextRaw ==
    \E org \in Orgs, prefix \in Prefixes, rows \in SeqsUpTo(RawRows, MaxRows) :
        SaveTransfersBatch(org, prefix, rows)

SpecRaw == InitSeq /\ [][NextRaw]_vars

\* ------------------------------------------------- reorder model and risk
\* Numbers of the planning functions are fixed-point: a service level p is held
\* in ten-thousandths (PUnit), a quantity (z, mu_LT, sigma_LT, ROP, S) in
\* twenty-thousandths (Unit), and order_up_factor in halves (KUnit).  Sales
\* rates, lead times and on_hand are whole numbers.  With these units every
\* product, sum and interpolation below is exact for the inputs of PlanInputs.
PUnit == 10000

Unit == 20000

KUnit == 2

Max(a, b) == IF a >= b THEN a ELSE b

Min(a, b) == IF a <= b THEN a ELSE b

\* mutant: the quantity is truncated instead of rounded up
Truncate(x) == x \div Unit

\* np.ceil of a quantity, as a whole number
Ceil(x) == -((-x) \div Unit)

\* _Z_TABLE: (p, z) with z in ten-thousandths
Z_TABLE ==
    <<[p |-> 8000, z |-> 8416], [p |-> 8500, z |-> 10360], [p |-> 9000, z |-> 12816],
      [p |-> 9500, z |-> 16449], [p |-> 9750, z |-> 19600], [p |-> 9800, z |-> 20540],
      [p |-> 9900, z |-> 23263]>>

\* a table z in quantity units
ZOf(e) == e.z * (Unit \div PUnit)

\* mutant: the interpolation starts from z1 instead of z0
RECURSIVE InterpolateFromUpper(_, _)
InterpolateFromUpper(p, i) ==
    IF i >= Len(Z_TABLE) THEN 16449 * (Unit \div PUnit)
    ELSE LET e0 == Z_TABLE[i]
             e1 == Z_TABLE[i + 1]
         IN  IF e0.p <= p /\ p <= e1.p
             THEN ZOf(e1) + ((p - e0.p) * (ZOf(e1) - ZOf(e0))) \div (e1.p - e0.p)
             ELSE InterpolateFromUpper(p, i + 1)

\* for (p0, z0), (p1, z1) in zip(_Z_TABLE[:-1], _Z_TABLE[1:]): the first i with p0 <= p <= p1
RECURSIVE Interpolate(_, _)
Interpolate(p, i) ==
    IF i >= Len(Z_TABLE) THEN 16449 * (Unit \div PUnit)
    ELSE LET e0 == Z_TABLE[i]
             e1 == Z_TABLE[i + 1]
         IN  IF e0.p <= p /\ p <= e1.p
             THEN ZOf(e0) + ((p - e0.p) * (ZOf(e1) - ZOf(e0))) \div (e1.p - e0.p)
             ELSE Interpolate(p, i + 1)

z_from_service_level(service_level) ==
    LET p == Max(8000, Min(service_level, 9900))
    IN  IF p <= Z_TABLE[1].p THEN ZOf(Z_TABLE[1])
        ELSE IF p >= Z_TABLE[Len(Z_TABLE)].p THEN ZOf(Z_TABLE[Len(Z_TABLE)])
        ELSE Interpolate(p, 1)

\* order_up_factor * mu_lt
TimesFactor(order_up_factor, x) == (order_up_factor * x) \div KUnit

compute_rop_s(avg_daily_sales, lt_mean, lt_std, service_level, order_up_factor) ==
    LET avg == Max(0, avg_daily_sales)
        mean == Max(0, lt_mean)
        std == Max(0, lt_std)
        z == z_from_service_level(service_level)
        mu_lt == avg * mean * Unit
        sigma_lt == avg * std * Unit
        rop == mu_lt + z * avg * std
        S == rop + TimesFactor(order_up_factor, mu_lt)
    IN  [rop |-> Max(0, rop), S |-> Max(0, S), mu_lt |-> mu_lt, sigma_lt |-> sigma_lt, z |-> z]

\* enrich_with_rop, for one row of the table
enrich_with_rop(row, service_level, order_up_factor) ==
    LET ads == row.avg_daily_sales_28d
        z == z_from_service_level(service_level)
        mu_lt == ads * row.lead_time_mean_days * Unit
        rop == mu_lt + z * ads * row.lead_time_std_days
        S == rop + TimesFactor(order_up_factor, mu_lt)
    IN  [fn |-> "enrich_with_rop",
         ROP |-> Max(0, rop), S_level |-> Max(0, S),
         suggested_order_qty |-> Max(0, Ceil(S - row.on_hand_units * Unit))]

suggest_order_for_row(row, service_level, order_up_factor) ==
    LET c == compute_rop_s(row.avg_daily_sales_28d, row.lead_time_mean_days,
                           row.lead_time_std_days, service_level, order_up_factor)
    IN  [fn |-> "suggest_order_for_row",
         qty |-> Max(0, Ceil(c.S - row.on_hand_units * Unit)), ROP |-> c.rop, S |-> c.S]

\* days_of_cover: on_hand_units / avg_daily_sales_28d as a fraction, or np.inf
Infinity == [inf |-> TRUE, num |-> 0, den |-> 1]

Fraction(n, d) == [inf |-> FALSE, num |-> n, den |-> d]

\* x < n and x > n for a days_of_cover x (den > 0) and a whole number n
LessThan(x, n) == ~x.inf /\ x.num < n * x.den

GreaterThan(x, n) == x.inf \/ x.num > n * x.den

\* the threshold of base["days_of_cover"] > 45
OverstockDays == 45

\* mutant: days_of_cover is 0 where there is no demand
DaysOfCoverZeroWithoutDemand(row) ==
    IF row.avg_daily_sales_28d > 0
    THEN Fraction(row.on_hand_units, row.avg_daily_sales_28d)
    ELSE Fraction(0, 1)

\* base["days_of_cover"] = np.where(avg > 0, on_hand / avg, np.inf)
DaysOfCover(row) ==
    IF row.avg_daily_sales_28d > 0
    THEN Fraction(row.on_hand_units, row.avg_daily_sales_28d)
    ELSE Infinity

\* mutant: np.select with the overstock condition first
risk_table_overstock_first(row) ==
    [fn |-> "risk_table",
     days_of_cover |-> DaysOfCover(row),
     risk |-> IF GreaterThan(DaysOfCover(row), OverstockDays) THEN "Sobrestock"
              ELSE IF row.avg_daily_sales_28d = 0 THEN "Baja demanda"
              ELSE IF LessThan(DaysOfCover(row), row.lead_time_mean_days)
                   THEN "Riesgo de quiebre"
              ELSE "Normal"]

\* risk_table, for one merged row: np.select takes the first condition that holds
risk_table(row) ==
    [fn |-> "risk_table",
     days_of_cover |-> DaysOfCover(row),
     risk |-> IF row.avg_daily_sales_28d = 0 THEN "Baja demanda"
              ELSE IF LessThan(DaysOfCover(row), row.lead_time_mean_days)
                   THEN "Riesgo de quiebre"
              ELSE IF GreaterThan(DaysOfCover(row), OverstockDays) THEN "Sobrestock"
              ELSE "Normal"]

\* the rows and parameters the planning functions are called with
SalesRates == {-1, 0, 1, 2, 10}

LeadTimeMeans == {-1, 0, 1, 5}

LeadTimeStds == {-1, 0, 1}

OnHandUnits == {-1, 0, 1, 4, 20, 45, 46, 100}

ServiceLevels == {7000, 8000, 8250, 8500, 9000, 9500, 9625, 9750, 9800, 9850, 9900, 10000}

OrderUpFactors == {-1, 0, 1, 2, 3}

PlanRows ==
    [avg_daily_sales_28d : SalesRates, lead_time_mean_days : LeadTimeMeans,
     lead_time_std_days : LeadTimeStds, on_hand_units : OnHandUnits]

PlanInputs == [row : PlanRows, service_level : ServiceLevels, order_up_factor : OrderUpFactors]

InitPlan ==
    /\ dialect = "sqlite"
    /\ inventory_levels = <<>>
    /\ transfers_confirmed = {}
    /\ orders_confirmed = {}
    /\ proc = [p \in Callers |-> [l |-> IdleCall, w |-> NoWrites, fed |-> 0]]
    /\ ncalls = 0
    /\ counted = ZeroMoved
    /\ seed = <<>>
    /\ last = [args |-> NoArgs, out |-> IdleCall, pre |-> Tables, moved |-> ZeroMoved,
               repeat |-> FALSE, first |-> IdleCall]
    /\ given \in PlanInputs
    /\ result = NoResult
    /\ session = NoSessions
    /\ events = NoEvents
    /\ inserting = NoInserts
    /\ client = NoClient

ledger == <<dialect, inventory_levels, transfers_confirmed, orders_confirmed,
            proc, ncalls, counted, seed, last>>

EnrichWithRop ==
    /\ result' = enrich_with_rop(given.row, given.service_level, given.order_up_factor)
    /\ UNCHANGED <<ledger, given, session, events, inserting, client>>

SuggestOrderForRow ==
    /\ result' = suggest_order_for_row(given.row, given.service_level, given.order_up_factor)
    /\ UNCHANGED <<ledger, given, session, events, inserting, client>>

RiskTable ==
    /\ result' = risk_table(given.row)
    /\ UNCHANGED <<ledger, given, session, events, inserting, client>>

NextPlan == EnrichWithRop \/ SuggestOrderForRow \/ RiskTable

SpecPlan == InitPlan /\ [][NextPlan]_vars

\* ---------------------------------------------------- suggested transfers
\* An allow-list argument: given says that a set was passed (not None).
NotGiven == [given |-> FALSE, set |-> {}]

Given(S) == [given |-> TRUE, set |-> S]

\* `if allowed_stores:` / `if allowed_skus:`: None and the empty set are both false
Truthy(allowed) == allowed.given /\ allowed.set # {}

\* distance_km of a row built without a distance: np.nan
NaN == -1

\* df.head(k)
HeadK(s, k) == SubSeq(s, 1, Min(k, Len(s)))

\* (df["ROP"] - df["on_hand_units"]).clip(lower=0).astype(int), on whole numbers
need_qty(r) == Max(r.ROP - r.on_hand_units, 0)

\* (df["on_hand_units"] - df["S_level"]).clip(lower=0).astype(int), on whole numbers
surplus_qty(r) == Max(r.on_hand_units - r.S_level, 0)

IsReceiver(r) == need_qty(r) > 0 \/ r.risk = "Riesgo de quiebre"

IsDonor(r) == surplus_qty(r) > 0 \/ r.risk = "Sobrestock"

Receiver(r) == [store_id |-> r.store_id, sku_id |-> r.sku_id, need_qty |-> need_qty(r)]

Donor(r) == [store_id |-> r.store_id, sku_id |-> r.sku_id, surplus_qty |-> surplus_qty(r)]

\* sort_values is called without `kind`, so it sorts with numpy's quicksort,
\* which is not stable: the order it leaves rows with equal keys in depends on
\* the build (insertion sort on short arrays, vectorised networks on others).
\* The order of the build at hand comes with the input: equal keys are left in
\* input order ("input") or in the opposite order ("reversed").
EqualKeysOrders == {"input", "reversed"}

EqualKeysOrder == given.quicksort

\* row j of equal key is put before row i
TieBefore(j, i) == IF EqualKeysOrder = "input" THEN j < i ELSE j > i

\* sort_values on one column: row i goes behind the rows that sort before it
\* and behind the rows of equal key that the sort puts first.
\* rec_sku.sort_values("need_qty", ascending=False)
SortByNeed(rec_sku) ==
    LET n == Len(rec_sku)
        pos(i) == 1 + Cardinality({j \in 1..n :
                                     \/ rec_sku[j].need_qty > rec_sku[i].need_qty
                                     \/ /\ rec_sku[j].need_qty = rec_sku[i].need_qty
                                        /\ TieBefore(j, i)})
    IN  [p \in 1..n |-> rec_sku[CHOOSE i \in 1..n : pos(i) = p]]

\* .sort_values("distance_km")
SortByDistance(merged) ==
    LET n == Len(merged)
        pos(i) == 1 + Cardinality({j \in 1..n :
                                     \/ merged[j].distance_km < merged[i].distance_km
                                     \/ /\ merged[j].distance_km = merged[i].distance_km
                                        /\ TieBefore(j, i)})
    IN  [p \in 1..n |-> merged[CHOOSE i \in 1..n : pos(i) = p]]

\* d.merge(df, left_on="from_store", right_on="store_id", how="inner")
RECURSIVE MergeDonors(_, _)
MergeDonors(d, df) ==
    IF d = <<>> THEN <<>>
    ELSE LET e == Head(d)
             IsFrom(x) == x.store_id = e.from_store
             m == SelectSeq(df, IsFrom)
         IN  [i \in 1..Len(m) |->
                 [donor_store |-> m[i].store_id, surplus_qty |-> m[i].surplus_qty,
                  distance_km |-> e.distance_km]] \o MergeDonors(Tail(d), df)

\* the donor rows returned without a distance (df.head(k))
WithoutDistance(df) ==
    [i \in 1..Len(df) |->
        [donor_store |-> df[i].store_id, surplus_qty |-> df[i].surplus_qty,
         distance_km |-> NaN]]

\* mutant: every donor is a candidate (no head(k))
all_donors_for_receiver(donors, receiver_store, sku, distances, k) ==
    LET OfSku(x) == x.sku_id = sku
        df == SelectSeq(donors, OfSku)
        ToReceiver(e) ==
            e.to_store = receiver_store /\ \E i \in 1..Len(df) : df[i].store_id = e.from_store
        d == SelectSeq(distances.rows, ToReceiver)
    IN  IF df = <<>> THEN <<>>
        ELSE IF ~distances.given \/ distances.rows = <<>> THEN WithoutDistance(df)
        ELSE IF d = <<>> THEN WithoutDistance(df)
        ELSE SortByDistance(MergeDonors(d, df))

nearest_donors_for_receiver(donors, receiver_store, sku, distances, k) ==
    LET OfSku(x) == x.sku_id = sku
        df == SelectSeq(donors, OfSku)
        ToReceiver(e) ==
            e.to_store = receiver_store /\ \E i \in 1..Len(df) : df[i].store_id = e.from_store
        d == SelectSeq(distances.rows, ToReceiver)
    IN  IF df = <<>> THEN <<>>
        ELSE IF ~distances.given \/ distances.rows = <<>> THEN WithoutDistance(HeadK(df, k))
        ELSE IF d = <<>> THEN WithoutDistance(HeadK(df, k))
        ELSE HeadK(SortByDistance(MergeDonors(d, df)), k)

\* mutant: the donor's surplus is not reduced by what was assigned
RECURSIVE AssignFromKeepingSurplus(_, _, _, _, _, _)
AssignFromKeepingSurplus(near, need, don_sku, r, min_batch, acc) ==
    IF near = <<>> \/ need <= 0 THEN [don_sku |-> don_sku, out |-> acc.out, all |-> acc.all]
    ELSE LET d == Head(near)
             surplus == Max(d.surplus_qty, 0)
             qty == Min(need, surplus)
             row == [sku_id |-> r.sku_id, from_store |-> d.donor_store,
                     to_store |-> r.store_id, qty |-> qty, distance_km |-> d.distance_km]
         IN  IF surplus <= 0 \/ qty < min_batch
             THEN AssignFromKeepingSurplus(Tail(near), need, don_sku, r, min_batch, acc)
             ELSE AssignFromKeepingSurplus(Tail(near), need - qty, don_sku, r, min_batch,
                                           [out |-> Append(acc.out, row),
                                            all |-> Append(acc.all, row)])

\* `for _, d in near.iterrows()`: the donors tried for one receiver.  all holds
\* every row appended to out_rows, out the rows out_rows holds now.
RECURSIVE AssignFrom(_, _, _, _, _, _)
AssignFrom(near, need, don_sku, r, min_batch, acc) ==
    IF near = <<>> \/ need <= 0 THEN [don_sku |-> don_sku, out |-> acc.out, all |-> acc.all]
    ELSE LET d == Head(near)
             surplus == Max(d.surplus_qty, 0)
             qty == Min(need, surplus)
             row == [sku_id |-> r.sku_id, from_store |-> d.donor_store,
                     to_store |-> r.store_id, qty |-> qty, distance_km |-> d.distance_km]
         IN  IF surplus <= 0 \/ qty < min_batch
             THEN AssignFrom(Tail(near), need, don_sku, r, min_batch, acc)
             ELSE AssignFrom(Tail(near), need - qty,
                             [i \in 1..Len(don_sku) |->
                                 IF don_sku[i].store_id = d.donor_store
                                 THEN [don_sku[i] EXCEPT !.surplus_qty = Max(@ - qty, 0)]
                                 ELSE don_sku[i]],
                             r, min_batch,
                             [out |-> Append(acc.out, row), all |-> Append(acc.all, row)])

\* `for _, r in rec_sku.iterrows()`
RECURSIVE ServeReceivers(_, _, _, _, _)
ServeReceivers(rec_sku, don_sku, distances, min_batch, acc) ==
    IF rec_sku = <<>> THEN acc
    ELSE LET r == Head(rec_sku)
             near == nearest_donors_for_receiver(don_sku, r.store_id, r.sku_id, distances, 5)
             a == AssignFrom(near, r.need_qty, don_sku, r, min_batch, acc)
         IN  IF r.need_qty <= 0 \/ near = <<>>
             THEN ServeReceivers(Tail(rec_sku), don_sku, distances, min_batch, acc)
             ELSE ServeReceivers(Tail(rec_sku), a.don_sku, distances, min_batch,
                                 [out |-> a.out, all |-> a.all])

\* np.nan_to_num(x["distance_km"], nan=1e9)
NanToNum(km) == IF km = NaN THEN 1000000000 ELSE km

\* mutant: the first max_per_sku rows of the SKU are kept, unsorted
CapSkuFirstRows(out_rows, sku, max_per_sku) ==
    LET n == Len(out_rows)
        OfSku(i) == out_rows[i].sku_id = sku
        pos(i) == Cardinality({j \in 1..i : OfSku(j)})
        Kept(i) == ~OfSku(i) \/ pos(i) <= max_per_sku
        keep == {i \in 1..n : Kept(i)}
        nth(p) == CHOOSE i \in keep : Cardinality({j \in keep : j <= i}) = p
    IN  IF max_per_sku > 0 /\ Cardinality({i \in 1..n : OfSku(i)}) > max_per_sku
        THEN [p \in 1..Cardinality(keep) |-> out_rows[nth(p)]]
        ELSE out_rows

\* the cap of one SKU: sorted(sku_rows, key=(distance, -qty))[:max_per_sku] are
\* kept, the rows of other SKUs too
CapSku(out_rows, sku, max_per_sku) ==
    LET n == Len(out_rows)
        OfSku(i) == out_rows[i].sku_id = sku
        Before(j, i) ==
            \/ NanToNum(out_rows[j].distance_km) < NanToNum(out_rows[i].distance_km)
            \/ /\ NanToNum(out_rows[j].distance_km) = NanToNum(out_rows[i].distance_km)
               /\ \/ out_rows[j].qty > out_rows[i].qty
                  \/ out_rows[j].qty = out_rows[i].qty /\ j < i
        pos(i) == 1 + Cardinality({j \in 1..n : OfSku(j) /\ Before(j, i)})
        Kept(i) == ~OfSku(i) \/ pos(i) <= max_per_sku
        keep == {i \in 1..n : Kept(i)}
        nth(p) == CHOOSE i \in keep : Cardinality({j \in keep : j <= i}) = p
    IN  IF max_per_sku > 0 /\ Cardinality({i \in 1..n : OfSku(i)}) > max_per_sku
        THEN [p \in 1..Cardinality(keep) |-> out_rows[nth(p)]]
        ELSE out_rows

\* sorted(...) of the SKU ids
SortedSkus == <<"K1", "K2">>

\* `for sku in common_skus`
RECURSIVE ForEachSku(_, _, _, _, _, _, _)
ForEachSku(common_skus, receivers, donors, distances, max_per_sku, min_batch, acc) ==
    IF common_skus = <<>> THEN acc
    ELSE LET sku == Head(common_skus)
             OfSku(x) == x.sku_id = sku
             a == ServeReceivers(SortByNeed(SelectSeq(receivers, OfSku)),
                                 SelectSeq(donors, OfSku), distances, min_batch, acc)
         IN  ForEachSku(Tail(common_skus), receivers, donors, distances, max_per_sku,
                        min_batch, [out |-> CapSku(a.out, sku, max_per_sku), all |-> a.all])

NoRows == [fn |-> "suggest_transfers", res |-> <<>>, all |-> <<>>]

suggest_transfers(enriched, distances, max_per_sku, allowed_stores, allowed_skus, min_batch) ==
    LET StoreAllowed(r) == ~Truthy(allowed_stores) \/ r.store_id \in allowed_stores.set
        SkuAllowed(r) == ~Truthy(allowed_skus) \/ r.sku_id \in allowed_skus.set
        df == SelectSeq(SelectSeq(enriched, StoreAllowed), SkuAllowed)
        rows_r == SelectSeq(df, IsReceiver)
        rows_d == SelectSeq(df, IsDonor)
        receivers == [i \in 1..Len(rows_r) |-> Receiver(rows_r[i])]
        donors == [i \in 1..Len(rows_d) |-> Donor(rows_d[i])]
        InBoth(sku) == /\ \E i \in 1..Len(receivers) : receivers[i].sku_id = sku
                       /\ \E i \in 1..Len(donors) : donors[i].sku_id = sku
        common_skus == SelectSeq(SortedSkus, InBoth)
        EdgeAllowed(e) ==
            e.from_store \in allowed_stores.set /\ e.to_store \in allowed_stores.set
        scoped == IF distances.given /\ distances.rows # <<>> /\ Truthy(allowed_stores)
                  THEN [distances EXCEPT !.rows = SelectSeq(@, EdgeAllowed)]
                  ELSE distances
        a == ForEachSku(common_skus, receivers, donors, scoped, max_per_sku, min_batch,
                        [out |-> <<>>, all |-> <<>>])
        RowAllowed(x) ==
            /\ Truthy(allowed_stores)
               => x.from_store \in allowed_stores.set /\ x.to_store \in allowed_stores.set
            /\ Truthy(allowed_skus) => x.sku_id \in allowed_skus.set
            /\ x.from_store # x.to_store
    IN  IF enriched = <<>> \/ df = <<>> \/ receivers = <<>> \/ donors = <<>>
           \/ common_skus = <<>> \/ a.out = <<>>
        THEN NoRows
        ELSE [fn |-> "suggest_transfers", res |-> SelectSeq(a.out, RowAllowed), all |-> a.all]

\* the tables and arguments suggest_transfers is called with
MaxTableRows == 3

EnrichedRows ==
    [store_id : BatchStores, sku_id : {"K1"}, ROP : {30}, S_level : {40},
     on_hand_units : {0, 35, 50, 90}, risk : {"Normal", "Riesgo de quiebre", "Sobrestock"}]

\* tables with one row per (store, SKU)
EnrichedTables ==
    {t \in SeqsUpTo(EnrichedRows, MaxTableRows) :
        \A i \in 1..Len(t), j \in 1..Len(t) : t[i].store_id = t[j].store_id => i = j}

Edge(f, t, km) == [from_store |-> f, to_store |-> t, distance_km |-> km]

NoDistances == [given |-> FALSE, rows |-> <<>>]

DistanceTables ==
    {NoDistances,
     [given |-> TRUE,
      rows |-> <<Edge("A", "B", 5), Edge("B", "A", 5), Edge("A", "C", 2), Edge("C", "A", 2),
                 Edge("B", "C", 9), Edge("C", "B", 9)>>],
     [given |-> TRUE, rows |-> <<Edge("B", "A", 7), Edge("C", "A", 3)>>]}

\* (allowed_stores, allowed_skus)
Scopes ==
    {<<NotGiven, NotGiven>>, <<Given({}), NotGiven>>, <<NotGiven, Given({})>>,
     <<Given({"A", "B"}), Given({"K1"})>>, <<Given(BatchStores), Given({"K2"})>>}

TransferInputs ==
    [enriched : EnrichedTables, distances : DistanceTables, max_per_sku : {20, 1},
     scope : Scopes, min_batch : {1}, quicksort : EqualKeysOrders]

InitSuggest ==
    /\ dialect = "sqlite"
    /\ inventory_levels = <<>>
    /\ transfers_confirmed = {}
    /\ orders_confirmed = {}
    /\ proc = [p \in Callers |-> [l |-> IdleCall, w |-> NoWrites, fed |-> 0]]
    /\ ncalls = 0
    /\ counted = ZeroMoved
    /\ seed = <<>>
    /\ last = [args |-> NoArgs, out |-> IdleCall, pre |-> Tables, moved |-> ZeroMoved,
               repeat |-> FALSE, first |-> IdleCall]
    /\ given \in TransferInputs
    /\ result = NoResult
    /\ session = NoSessions
    /\ events = NoEvents
    /\ inserting = NoInserts
    /\ client = NoClient

SuggestTransfers ==
    /\ result.fn = "none"
    /\ result' = suggest_transfers(given.enriched, given.distances, given.max_per_sku,
                                   given.scope[1], given.scope[2], given.min_batch)
    /\ UNCHANGED <<ledger, given, session, events, inserting, client>>

NextSuggest == SuggestTransfers

SpecSuggest == InitSuggest /\ [][NextSuggest]_vars

\* ------------------------------------------- receivers, donors and the cap
\* Tables of one or two receivers (stores A and B) and one, two or six donors
\* (stores D1..D6) of SKU K1, with or without rows of a second SKU.
DonorStores == <<"D1", "D2", "D3", "D4", "D5", "D6">>

MatchRow(store, sku, on_hand) ==
    [store_id |-> store, sku_id |-> sku, ROP |-> 30, S_level |-> 40,
     on_hand_units |-> on_hand, risk |-> "Normal"]

\* need_qty 30 and 10
ReceiverOnHands == {0, 20}

\* surplus_qty 5 and 50
DonorOnHands == {45, 90}

ReceiverTables ==
    {<<MatchRow("A", "K1", a)>> : a \in ReceiverOnHands}
    \cup {<<MatchRow("A", "K1", a), MatchRow("B", "K1", b)>> : a, b \in ReceiverOnHands}

DonorCounts == {1, 2, Len(DonorStores)}

DonorTables ==
    UNION {{[i \in 1..n |-> MatchRow(DonorStores[i], "K1", h[i])] : h \in [1..n -> DonorOnHands]}
              : n \in DonorCounts}

OtherSkuTables ==
    {<<>>, <<MatchRow("A", "K2", 0), MatchRow("D1", "K2", 45), MatchRow("D2", "K2", 90)>>}

MatchTables == {r \o d \o o : r \in ReceiverTables, d \in DonorTables, o \in OtherSkuTables}

\* the distance rows from every donor store to store t
EdgesTo(t, km) == [i \in 1..Len(DonorStores) |-> Edge(DonorStores[i], t, km[i])]

MatchDistances ==
    {NoDistances,
     [given |-> TRUE,
      rows |-> EdgesTo("A", <<1, 2, 3, 4, 5, 6>>) \o EdgesTo("B", <<6, 5, 4, 3, 2, 1>>)],
     [given |-> TRUE,
      rows |-> EdgesTo("A", <<6, 5, 4, 3, 2, 1>>) \o EdgesTo("B", <<5, 5, 5, 5, 5, 5>>)],
     [given |-> TRUE, rows |-> <<Edge("D5", "A", 2), Edge("D6", "A", 1)>>]}

MatchInputs ==
    [enriched : MatchTables, distances : MatchDistances, max_per_sku : {20, 1, 2},
     scope : {<<NotGiven, NotGiven>>}, min_batch : {1, 10}, quicksort : EqualKeysOrders]

InitMatch ==
    /\ dialect = "sqlite"
    /\ inventory_levels = <<>>
    /\ transfers_confirmed = {}
    /\ orders_confirmed = {}
    /\ proc = [p \in Callers |-> [l |-> IdleCall, w |-> NoWrites, fed |-> 0]]
    /\ ncalls = 0
    /\ counted = ZeroMoved
    /\ seed = <<>>
    /\ last = [args |-> NoArgs, out |-> IdleCall, pre |-> Tables, moved |-> ZeroMoved,
               repeat |-> FALSE, first |-> IdleCall]
    /\ given \in MatchInputs
    /\ result = NoResult
    /\ session = NoSessions
    /\ events = NoEvents
    /\ inserting = NoInserts
    /\ client = NoClient

SpecMatch == InitMatch /\ [][NextSuggest]_vars

\* ------------------------------------------------------ seeding the ledger
\* Every run of main() checks whether the ledger has rows of the org and seeds
\* it from the snapshot when it has none; the check, the seeding and every call
\* of save_transfers are transactions of their own.  seed is the snapshot.
Snapshots == Ledgers \ {<<>>}

\* fetch_inventory_levels(org_id, store_ids, sku_ids): the rows of the org
fetch_inventory_levels(inv, org) == {k \in DOMAIN inv : k[1] = org}

\* seed_inventory_from_snapshot: every snapshot row upserted,
\* ON CONFLICT DO UPDATE SET on_hand = excluded.on_hand
seed_inventory_from_snapshot(inv, snapshot) ==
    [k \in DOMAIN inv \cup DOMAIN snapshot |->
        IF k \in DOMAIN snapshot THEN snapshot[k] ELSE inv[k]]

InitSeed ==
    /\ dialect \in Dialects
    /\ inventory_levels = <<>>
    /\ transfers_confirmed = {}
    /\ orders_confirmed = {}
    /\ proc = [p \in Callers |-> [l |-> IdleCall, w |-> NoWrites, fed |-> 0]]
    /\ ncalls = 0
    /\ counted = ZeroMoved
    /\ seed \in Snapshots
    /\ last = [args |-> NoArgs, out |-> IdleCall, pre |-> Tables, moved |-> ZeroMoved,
               repeat |-> FALSE, first |-> IdleCall]
    /\ given = NoInput
    /\ result = NoResult
    /\ session = [s \in Callers |-> "start"]
    /\ events = NoEvents
    /\ inserting = NoInserts
    /\ client = NoClient

\* inv_db_check = repo.fetch_inventory_levels(...); if inv_db_check.empty: ...
CheckInventory(s, org) ==
    /\ session[s] = "start"
    /\ session' = [session EXCEPT ![s] =
                      IF fetch_inventory_levels(inventory_levels, org) = {} /\ seed # <<>>
                      THEN "seed" ELSE "ready"]
    /\ UNCHANGED <<ledger, given, result, events, inserting, client>>

\* repo.seed_inventory_from_snapshot(actor.org_id, inv)
SeedInventory(s) ==
    /\ session[s] = "seed"
    /\ inventory_levels' = seed_inventory_from_snapshot(inventory_levels, seed)
    /\ session' = [session EXCEPT ![s] = "ready"]
    /\ UNCHANGED <<dialect, transfers_confirmed, orders_confirmed, proc, ncalls, counted,
                   seed, last, given, result, events, inserting, client>>

\* the batches a session confirms: one row that passes the row checks
ConfirmedBatches == {<<r>> : r \in SentTransferRows}

\* a confirmed transfer of the session
ApplyTransfers(s, org, prefix, rows) ==
    /\ session[s] = "ready"
    /\ SaveTransfers(org, prefix, rows)

\* the next interaction runs main() again
Rerun(s) ==
    /\ session[s] = "ready"
    /\ session' = [session EXCEPT ![s] = "start"]
    /\ UNCHANGED <<ledger, given, result, events, inserting, client>>

NextSeed ==
    \/ \E s \in Callers, org \in Orgs : CheckInventory(s, org)
    \/ \E s \in Callers : SeedInventory(s)
    \/ \E s \in Callers, org \in Orgs, prefix \in Prefixes, rows \in ConfirmedBatches :
          ApplyTransfers(s, org, prefix, rows)
    \/ \E s \in Callers : Rerun(s)

SpecSeed == InitSeed /\ [][NextSeed]_vars

\* ------------------------------------------------------------ guardrails
\* (valid, blocked): df[mask].reset_index(drop=True), df[~mask].reset_index(drop=True)
SplitBy(df, mask) ==
    LET In(i) == mask[i]
        Out(i) == ~mask[i]
        rows(I) == [p \in 1..Cardinality(I) |->
                       df[CHOOSE i \in I : Cardinality({j \in I : j <= i}) = p]]
    IN  [valid |-> rows({i \in 1..Len(df) : In(i)}),
         blocked |-> rows({i \in 1..Len(df) : Out(i)})]

enforce_orders_scope(orders_df, allowed_stores, allowed_skus) ==
    IF orders_df = <<>> THEN [fn |-> "enforce_orders_scope", valid |-> orders_df,
                              blocked |-> orders_df]
    ELSE LET mask == [i \in 1..Len(orders_df) |->
                         /\ orders_df[i].store_id \in allowed_stores
                         /\ orders_df[i].sku_id \in allowed_skus]
             split == SplitBy(orders_df, mask)
         IN  [fn |-> "enforce_orders_scope", valid |-> split.valid, blocked |-> split.blocked]

\* mutant: the mask does not look at to_store
enforce_transfers_scope_from_only(transfers_df, allowed_stores, allowed_skus) ==
    IF transfers_df = <<>> THEN [fn |-> "enforce_transfers_scope", valid |-> transfers_df,
                                 blocked |-> transfers_df]
    ELSE LET mask == [i \in 1..Len(transfers_df) |->
                         /\ transfers_df[i].from_store \in allowed_stores
                         /\ transfers_df[i].sku_id \in allowed_skus]
             split == SplitBy(transfers_df, mask)
         IN  [fn |-> "enforce_transfers_scope", valid |-> split.valid,
              blocked |-> split.blocked]

enforce_transfers_scope(transfers_df, allowed_stores, allowed_skus) ==
    IF transfers_df = <<>> THEN [fn |-> "enforce_transfers_scope", valid |-> transfers_df,
                                 blocked |-> transfers_df]
    ELSE LET mask == [i \in 1..Len(transfers_df) |->
                         /\ transfers_df[i].from_store \in allowed_stores
                         /\ transfers_df[i].to_store \in allowed_stores
                         /\ transfers_df[i].sku_id \in allowed_skus]
             split == SplitBy(transfers_df, mask)
         IN  [fn |-> "enforce_transfers_scope", valid |-> split.valid,
              blocked |-> split.blocked]

\* the tables and allow-lists the guardrails are called with
ScopeSkus == {"K1", "K2"}

OrderTableRows == [store_id : BatchStores, sku_id : ScopeSkus]

TransferTableRows == [from_store : BatchStores, to_store : BatchStores, sku_id : ScopeSkus]

AllowedStoreSets == {{}, {"A"}, {"A", "B"}, BatchStores}

AllowedSkuSets == {{}, {"K1"}, ScopeSkus}

ScopeInputs(fn, Rows) ==
    [fn : {fn}, df : {<<>>} \cup SeqsUpTo(Rows, MaxTableRows),
     allowed_stores : AllowedStoreSets, allowed_skus : AllowedSkuSets]

InitScope ==
    /\ dialect = "sqlite"
    /\ inventory_levels = <<>>
    /\ transfers_confirmed = {}
    /\ orders_confirmed = {}
    /\ proc = [p \in Callers |-> [l |-> IdleCall, w |-> NoWrites, fed |-> 0]]
    /\ ncalls = 0
    /\ counted = ZeroMoved
    /\ seed = <<>>
    /\ last = [args |-> NoArgs, out |-> IdleCall, pre |-> Tables, moved |-> ZeroMoved,
               repeat |-> FALSE, first |-> IdleCall]
    /\ \/ given \in ScopeInputs("enforce_orders_scope", OrderTableRows)
       \/ given \in ScopeInputs("enforce_transfers_scope", TransferTableRows)
    /\ result = NoResult
    /\ session = NoSessions
    /\ events = NoEvents
    /\ inserting = NoInserts
    /\ client = NoClient

EnforceOrdersScope ==
    /\ given.fn = "enforce_orders_scope"
    /\ result.fn = "none"
    /\ result' = enforce_orders_scope(given.df, given.allowed_stores, given.allowed_skus)
    /\ UNCHANGED <<ledger, given, session, events, inserting, client>>

EnforceTransfersScope ==
    /\ given.fn = "enforce_transfers_scope"
    /\ result.fn = "none"
    /\ result' = enforce_transfers_scope(given.df, given.allowed_stores, given.allowed_skus)
    /\ UNCHANGED <<ledger, given, session, events, inserting, client>>

NextScope == EnforceOrdersScope \/ EnforceTransfersScope

SpecScope == InitScope /\ [][NextScope]_vars

\* ---------------------------------------------------------- future state
\* int(row.qty) of a confirmed row; an exception skips the row
FutureQty(r) == IntOf([qty |-> r.qty, qty_as |-> r.qty_as])

FutureQtyConverts(r) == IntConverts([qty |-> r.qty, qty_as |-> r.qty_as])

\* df = inv_snapshot[[...]].rename(columns={"on_hand_units": "on_hand_before"})
RenamedSnapshot(inv_snapshot) ==
    [i \in 1..Len(inv_snapshot) |->
        [store_id |-> inv_snapshot[i].store_id, sku_id |-> inv_snapshot[i].sku_id,
         on_hand_before |-> inv_snapshot[i].on_hand_units]]

\* df.loc[mask_from, "on_hand_before"] = ....sub(qty, fill_value=0).clip(lower=0)
SubClipBefore(df, store, sku, qty) ==
    [i \in 1..Len(df) |->
        IF df[i].store_id = store /\ df[i].sku_id = sku
        THEN [df[i] EXCEPT !.on_hand_before = Max(0, @ - qty)] ELSE df[i]]

\* df.loc[mask_to, "on_hand_before"] = ....add(qty, fill_value=0)
AddBefore(df, store, sku, qty) ==
    [i \in 1..Len(df) |->
        IF df[i].store_id = store /\ df[i].sku_id = sku
        THEN [df[i] EXCEPT !.on_hand_before = @ + qty] ELSE df[i]]

\* df.loc[mask, "on_hand_after_transfers"] = ....add(qty, fill_value=0)
AddAfterTransfers(df, store, sku, qty) ==
    [i \in 1..Len(df) |->
        IF df[i].store_id = store /\ df[i].sku_id = sku
        THEN [df[i] EXCEPT !.on_hand_after_transfers = @ + qty] ELSE df[i]]

\* for row in transfers_c.itertuples(index=False): ...
RECURSIVE TransfersLoop(_, _)
TransfersLoop(df, transfers_c) ==
    IF transfers_c = <<>> THEN df
    ELSE LET row == Head(transfers_c)
         IN  IF ~FutureQtyConverts(row) THEN TransfersLoop(df, Tail(transfers_c))
             ELSE TransfersLoop(
                      AddBefore(SubClipBefore(df, row.from_store, row.sku_id, FutureQty(row)),
                                row.to_store, row.sku_id, FutureQty(row)),
                      Tail(transfers_c))

\* for row in orders_c.itertuples(index=False): ...
RECURSIVE OrdersLoop(_, _)
OrdersLoop(df, orders_c) ==
    IF orders_c = <<>> THEN df
    ELSE LET row == Head(orders_c)
         IN  IF ~FutureQtyConverts(row) THEN OrdersLoop(df, Tail(orders_c))
             ELSE OrdersLoop(AddAfterTransfers(df, row.store_id, row.sku_id, FutureQty(row)),
                             Tail(orders_c))

\* the returned table; the column on_hand_after_orders exists only if the
\* orders block has run
compute_future_state(inv_snapshot, orders_c, transfers_c, include_orders_in_future) ==
    LET moved == TransfersLoop(RenamedSnapshot(inv_snapshot), transfers_c)
        copied == [i \in 1..Len(moved) |->
                      [store_id |-> moved[i].store_id, sku_id |-> moved[i].sku_id,
                       on_hand_before |-> moved[i].on_hand_before,
                       on_hand_after_transfers |-> moved[i].on_hand_before]]
        with_orders == include_orders_in_future /\ orders_c # <<>>
        df == IF with_orders THEN OrdersLoop(copied, orders_c) ELSE copied
    IN  [i \in 1..Len(df) |->
            IF with_orders
            THEN [store_id |-> df[i].store_id, sku_id |-> df[i].sku_id,
                  on_hand_before |-> df[i].on_hand_before,
                  on_hand_after_transfers |-> df[i].on_hand_after_transfers,
                  on_hand_after_orders |-> df[i].on_hand_after_transfers,
                  delta_on_hand |-> df[i].on_hand_after_transfers - df[i].on_hand_before]
            ELSE [store_id |-> df[i].store_id, sku_id |-> df[i].sku_id,
                  on_hand_before |-> df[i].on_hand_before,
                  on_hand_after_transfers |-> df[i].on_hand_after_transfers,
                  delta_on_hand |-> df[i].on_hand_after_transfers - df[i].on_hand_before]]

\* the mean of units_sold per (store, SKU) of the window, as a function on the
\* pairs that have sales rows; a left merge leaves NaN for the other pairs
AvgOf(recent, store, sku) ==
    IF <<store, sku>> \in DOMAIN recent THEN recent[<<store, sku>>] ELSE NaN

\* inv_col of enrich_with_future_metrics
InvCol(row) ==
    IF "on_hand_after_orders" \in DOMAIN row THEN row.on_hand_after_orders
    ELSE row.on_hand_after_transfers

\* enrich_with_future_metrics: every comparison with a NaN avg is False
enrich_with_future_metrics(future_df, recent, lt) ==
    [i \in 1..Len(future_df) |->
        LET row == future_df[i]
            avg == AvgOf(recent, row.store_id, row.sku_id)
            days_of_cover_future ==
                IF avg # NaN /\ avg > 0 THEN Fraction(InvCol(row), avg) ELSE Infinity
        IN  [store_id |-> row.store_id, sku_id |-> row.sku_id,
             on_hand |-> InvCol(row),
             avg_daily_sales_28d |-> avg,
             risk_future |->
                 IF avg # NaN /\ avg = 0 THEN "Baja demanda"
                 ELSE IF LessThan(days_of_cover_future, lt[<<row.store_id, row.sku_id>>])
                      THEN "Riesgo de quiebre"
                 ELSE IF GreaterThan(days_of_cover_future, OverstockDays) THEN "Sobrestock"
                 ELSE "Normal"]]

\* risk_table(recent, inv, lt) over the whole table: the merged avg has its
\* NaN filled with 0.0
base_before(recent, inv, lt) ==
    [i \in 1..Len(inv) |->
        LET avg == AvgOf(recent, inv[i].store_id, inv[i].sku_id)
            row == [avg_daily_sales_28d |-> IF avg = NaN THEN 0 ELSE avg,
                    on_hand_units |-> inv[i].on_hand_units,
                    lead_time_mean_days |-> lt[<<inv[i].store_id, inv[i].sku_id>>]]
        IN  [store_id |-> inv[i].store_id, sku_id |-> inv[i].sku_id,
             on_hand_units |-> inv[i].on_hand_units,
             risk |-> risk_table(row).risk]]

RiskCategories == {"Riesgo de quiebre", "Sobrestock", "Baja demanda", "Normal"}

\* summarize_impact: per category, the count after minus the count before
summarize_impact(before_enriched, after_enriched) ==
    [cat \in RiskCategories |->
        Cardinality({i \in 1..Len(after_enriched) : after_enriched[i].risk_future = cat})
        - Cardinality({i \in 1..Len(before_enriched) : before_enriched[i].risk = cat})]

\* the tables the projection is called with
FutureOnHands == {0, 3, 10, 50}

SnapshotRow(store, n) == [store_id |-> store, sku_id |-> "K1", on_hand_units |-> n]

InvSnapshots ==
    {<<SnapshotRow("A", a)>> : a \in FutureOnHands}
    \cup {<<SnapshotRow("A", a), SnapshotRow("B", b)>> : a, b \in FutureOnHands}

ConfirmedTransferRows ==
    [from_store : Stores, to_store : Stores, sku_id : Skus, qty : 1..MaxQty, qty_as : {"int"}]
    \cup [from_store : Stores, to_store : Stores, sku_id : Skus, qty : {0}, qty_as : {"text"}]

ConfirmedOrderRows ==
    [store_id : Stores, sku_id : Skus, qty : 1..MaxQty, qty_as : {"int"}]
    \cup [store_id : Stores, sku_id : Skus, qty : {0}, qty_as : {"text"}]

MaxConfirmed == 2     \* confirmed transfers, and confirmed orders, in one projection

FutureInputs ==
    [fn : {"compute_future_state"}, inv_snapshot : InvSnapshots,
     orders_c : {<<>>} \cup SeqsUpTo(ConfirmedOrderRows, MaxConfirmed),
     transfers_c : {<<>>} \cup SeqsUpTo(ConfirmedTransferRows, MaxConfirmed),
     include_orders_in_future : BOOLEAN]

InitFuture ==
    /\ dialect = "sqlite"
    /\ inventory_levels = <<>>
    /\ transfers_confirmed = {}
    /\ orders_confirmed = {}
    /\ proc = [p \in Callers |-> [l |-> IdleCall, w |-> NoWrites, fed |-> 0]]
    /\ ncalls = 0
    /\ counted = ZeroMoved
    /\ seed = <<>>
    /\ last = [args |-> NoArgs, out |-> IdleCall, pre |-> Tables, moved |-> ZeroMoved,
               repeat |-> FALSE, first |-> IdleCall]
    /\ given \in FutureInputs
    /\ result = NoResult
    /\ session = NoSessions
    /\ events = NoEvents
    /\ inserting = NoInserts
    /\ client = NoClient

ComputeFutureState ==
    /\ result.fn = "none"
    /\ result' = [fn |-> "compute_future_state",
                  df |-> compute_future_state(given.inv_snapshot, given.orders_c,
                                              given.transfers_c,
                                              given.include_orders_in_future)]
    /\ UNCHANGED <<ledger, given, session, events, inserting, client>>

NextFuture == ComputeFutureState

SpecFuture == InitFuture /\ [][NextFuture]_vars

\* the impact summary of the summary view: the projection, the risk table of
\* the snapshot, the future metrics and the per-category deltas
LeadTimeTables == {[k \in Stores \X Skus |-> 5]}

RecentTables == UNION {[K -> {0, 1}] : K \in SUBSET (Stores \X Skus)}

ImpactInputs ==
    [fn : {"summarize_impact"}, inv_snapshot : InvSnapshots,
     orders_c : {<<>>} \cup SeqsUpTo(ConfirmedOrderRows, 1),
     transfers_c : {<<>>} \cup SeqsUpTo(ConfirmedTransferRows, 1),
     include_orders_in_future : BOOLEAN,
     recent : RecentTables, lt : LeadTimeTables]

InitImpact ==
    /\ dialect = "sqlite"
    /\ inventory_levels = <<>>
    /\ transfers_confirmed = {}
    /\ orders_confirmed = {}
    /\ proc = [p \in Callers |-> [l |-> IdleCall, w |-> NoWrites, fed |-> 0]]
    /\ ncalls = 0
    /\ counted = ZeroMoved
    /\ seed = <<>>
    /\ last = [args |-> NoArgs, out |-> IdleCall, pre |-> Tables, moved |-> ZeroMoved,
               repeat |-> FALSE, first |-> IdleCall]
    /\ given \in ImpactInputs
    /\ result = NoResult
    /\ session = NoSessions
    /\ events = NoEvents
    /\ inserting = NoInserts
    /\ client = NoClient

FutureEnriched ==
    /\ result.fn = "none"
    /\ result' = [fn |-> "enrich_with_future_metrics",
                  before_enriched |-> base_before(given.recent, given.inv_snapshot, given.lt),
                  future_enriched |->
                      enrich_with_future_metrics(
                          compute_future_state(given.inv_snapshot, given.orders_c,
                                               given.transfers_c,
                                               given.include_orders_in_future),
                          given.recent, given.lt)]
    /\ UNCHANGED <<ledger, given, session, events, inserting, client>>

SummarizeImpact ==
    /\ result.fn = "enrich_with_future_metrics"
    /\ result' = [fn |-> "summarize_impact",
                  before_enriched |-> result.before_enriched,
                  future_enriched |-> result.future_enriched,
                  impact |-> summarize_impact(result.before_enriched, result.future_enriched)]
    /\ UNCHANGED <<ledger, given, session, events, inserting, client>>

NextImpact == FutureEnriched \/ SummarizeImpact

SpecImpact == InitImpact /\ [][NextImpact]_vars

\* ---------------------------------------------------------------- events
\* The events table of backend/api/db.py and a client of GET /events/poll.
\* A row is kept as its id and org_id; ts, type and payload take no part in
\* what a poll selects.  insert_event is one transaction: its INSERT draws
\* the row's id, its commit makes the row visible to readers.  On PostgreSQL
\* the id comes from the sequence events_id_seq, which transactions share
\* and draw from without waiting for each other, so ids can become visible
\* out of order.  On SQLite the INSERT takes the database's write lock,
\* which is held until the commit: a second writer waits.

\* events inserted at most
MaxEvents == 3

\* the orgs that publish events; the client polls for ClientOrg
EventOrgs == Orgs \cup {"org2"}

ClientOrg == "org1"

\* limit=200 of the client's request
PollLimit == 200

RECURSIVE AscendingIds(_)
\* .order_by(events_tbl.c.id.asc())
AscendingIds(ids) ==
    IF ids = {} THEN <<>>
    ELSE LET m == CHOOSE i \in ids : \A j \in ids : i <= j
         IN <<m>> \o AscendingIds(ids \ {m})

\* db.poll_events: the committed rows of org_id with id > after, ascending,
\* at most limit of them; the cursor is the last id returned, else after
poll_events(rows, org_id, after, limit) ==
    LET ids == AscendingIds({r.id : r \in {q \in rows : q.org_id = org_id /\ q.id > after}})
        evs == IF Len(ids) > limit THEN SubSeq(ids, 1, limit) ELSE ids
    IN [evs |-> evs, cursor |-> IF evs # <<>> THEN evs[Len(evs)] ELSE after]

\* routes_events.events_poll: {"events": evs, "cursor": cursor}
events_poll(rows, org_id, after, limit) == poll_events(rows, org_id, after, limit)

InitEvents ==
    /\ dialect \in Dialects
    /\ inventory_levels = <<>>
    /\ transfers_confirmed = {}
    /\ orders_confirmed = {}
    /\ proc = [p \in Callers |-> [l |-> IdleCall, w |-> NoWrites, fed |-> 0]]
    /\ ncalls = 0
    /\ counted = ZeroMoved
    /\ seed = <<>>
    /\ last = [args |-> NoArgs, out |-> IdleCall, pre |-> Tables, moved |-> ZeroMoved,
               repeat |-> FALSE, first |-> IdleCall]
    /\ given = NoInput
    /\ result = NoResult
    /\ session = NoSessions
    /\ events = NoEvents
    /\ inserting = NoInserts
    /\ client = NoClient

\* insert_event up to ev_id = int(res.inserted_primary_key[0]): the INSERT
\* has drawn the next id, the row is not committed yet
InsertEvent(w, org_id) ==
    /\ inserting[w] = NoEvent
    /\ events.seq < MaxEvents
    /\ dialect = "sqlite" => \A v \in Writers : inserting[v] = NoEvent
    /\ events' = [events EXCEPT !.seq = events.seq + 1]
    /\ inserting' = [inserting EXCEPT ![w] = [id |-> events.seq + 1, org_id |-> org_id]]
    /\ UNCHANGED <<ledger, given, result, session, client>>

\* the end of insert_event's `with engine.begin()` block: the commit
CommitEvent(w) ==
    /\ inserting[w] # NoEvent
    /\ events' = [events EXCEPT !.rows = events.rows \cup {inserting[w]}]
    /\ inserting' = [inserting EXCEPT ![w] = NoEvent]
    /\ UNCHANGED <<ledger, given, result, session, client>>

\* client_events.poll_events(org_id, cursor) answered: (evs, new_cur), and
\* the client adopts new_cur
PollEvents ==
    /\ \E r \in {events_poll(events.rows, ClientOrg, client.cursor, PollLimit)} :
          client' = [cursor |-> r.cursor, evs |-> r.evs,
                     got |-> client.got \o r.evs, ok |-> TRUE]
    /\ UNCHANGED <<ledger, given, result, session, events, inserting>>

\* client_events.poll_events when the request fails: `return [], cursor`
PollFails ==
    /\ client' = [client EXCEPT !.evs = <<>>, !.ok = FALSE]
    /\ UNCHANGED <<ledger, given, result, session, events, inserting>>

NextEvents ==
    \/ \E w \in Writers, org_id \in EventOrgs : InsertEvent(w, org_id)
    \/ \E w \in Writers : CommitEvent(w)
    \/ PollEvents
    \/ PollFails

SpecEvents == InitEvents /\ [][NextEvents]_vars

\* the client keeps polling, and a request succeeds again and again
SpecEventsFair == SpecEvents /\ WF_vars(PollEvents)

\* ------------------------------------------------------------ properties
RECURSIVE SumOver(_, _)
SumOver(inv, K) ==
    IF K = {} THEN 0
    ELSE LET k == CHOOSE x \in K : TRUE IN inv[k] + SumOver(inv, K \ {k})

\* the total on_hand of one SKU of one organisation, over its stores
TotalOnHand(inv, org, sku) == SumOver(inv, {k \in DOMAIN inv : k[1] = org /\ k[3] = sku})

\* on_hand of a key, a key without a row holding nothing
OnHandOf(inv, k) == IF k \in DOMAIN inv THEN inv[k] ELSE 0

Quiescent == \A p \in Callers : ~InBlock(proc[p].l) /\ proc[p].l.pc # "commit"

\* C1: starting from a ledger with every on_hand >= 0, every inventory_levels
\* row has on_hand >= 0 in every committed state that concurrent save_transfers
\* calls can reach, whatever the interleaving of their statements.
OnHandNeverNegative == \A k \in DOMAIN inventory_levels : inventory_levels[k] >= 0

\* C1 witness: on PostgreSQL two open transactions drain the same source row:
\* one has decremented it and not yet committed, the other waits at its
\* conditional decrement for the row.
TwoCallersDrainSameSource ==
    /\ dialect = "postgresql"
    /\ \E p \in Callers : \E q \in Others(p) :
          /\ proc[p].l.pc = "incr"
          /\ proc[q].l.pc = "decr"
          /\ FromKey(proc[p].l) = FromKey(proc[q].l)
          /\ Waits(q)

\* C2 (as claimed): a second save_orders call with the same org_id, idem_prefix
\* and rows, after a first call that inserted every row, returns new_count = 0
\* and duplicate_count = len(rows), inserts no OrderRecord and leaves every
\* on_hand unchanged.
SecondOrderCallAllDuplicates ==
    (/\ last.repeat
     /\ last.args.op = "orders"
     /\ last.first.pc = "returned"
     /\ last.first.nuevos = Len(last.args.rows))
    => /\ last.out.pc = "returned"
       /\ last.out.nuevos = 0
       /\ last.out.duplicados = Len(last.args.rows)
       /\ orders_confirmed = last.pre.ords
       /\ inventory_levels = last.pre.inv

AppliedRowMovesQty(p) ==
    LET l == proc[p].l
        l2 == proc'[p].l
        v == View(p).inv
        v2 == View(p)'.inv
    IN  /\ l2.pc = "incr" /\ l.pc # "incr"
           => /\ l.pc = "decr"
              /\ v2 = [v EXCEPT ![FromKey(l)] = @ - Head(l.rows).qty]
        /\ l2.pc = "incr" /\ l.pc = "incr"
           => l2 = l /\ v2[FromKey(l)] = v[FromKey(l)]
        /\ l2.applied = l.applied + 1
           => /\ l.pc = "incr"
              /\ FromKey(l) # ToKey(l)
              /\ v2 = [v EXCEPT ![ToKey(l)] = @ + Head(l.rows).qty]

TransferConservesStock ==
    [][/\ \A p \in Callers : AppliedRowMovesQty(p)
       /\ \A org \in Orgs, sku \in Skus :
             TotalOnHand(inventory_levels', org, sku) = TotalOnHand(inventory_levels, org, sku)]_vars

\* C4 witness: a call has returned with a row counted as applied and the
\* committed ledger shows the move.
AppliedTransferCommitted ==
    \E p \in Callers, k \in DOMAIN inventory_levels :
        /\ proc[p].l.pc = "returned"
        /\ proc[p].l.applied = 1
        /\ counted[k] > 0
        /\ inventory_levels[k] = OnHandOf(seed, k) + counted[k]

\* C5: when the conditional decrement of a non-duplicate row finds the source
\* on_hand below qty, the row is counted insufficient and not applied, no ledger
\* on_hand changes (the destination is not incremented: the call goes on to the
\* next row), and the row's TransferRecord stays among the writes of the
\* transaction; only such a row is ever counted insufficient.
InsufficientRow(p) ==
    LET l == proc[p].l
        l2 == proc'[p].l
        v == View(p)
        v2 == View(p)'
    IN  /\ (/\ l.pc = "decr"
            /\ l2 # l /\ l2.pc # "raised"
            /\ OnHandOf(v.inv, FromKey(l)) < Head(l.rows).qty)
           => /\ l2.insufficient = l.insufficient + 1
              /\ l2.applied = l.applied
              /\ l2.pc = "insert"
              /\ v2.inv = v.inv
              /\ TransferPayload(l.org_id, l.idem_prefix, Head(l.rows)) \in proc'[p].w.wtrs
        /\ l2.insufficient = l.insufficient + 1
           => l.pc = "decr" /\ OnHandOf(v.inv, FromKey(l)) < Head(l.rows).qty

DuplicateTransferMovesNothing ==
    /\ \A t1 \in transfers_confirmed, t2 \in transfers_confirmed :
          TransferUq(t1) = TransferUq(t2) => t1 = t2
    /\ (/\ last.args.op = "transfers"
        /\ Len(last.args.rows) = 1
        /\ ~TransferRowSkipped(last.args.rows[1])
        /\ TransferConflict(last.pre.trs,
                            TransferPayload(last.args.org_id, last.args.idem_prefix,
                                            last.args.rows[1])))
       => /\ last.out.pc = "returned"
          /\ last.out.dup = 1 /\ last.out.applied = 0 /\ last.out.insufficient = 0
          /\ Tables = last.pre
    /\ (last.args.op = "transfers" /\ last.repeat)
       => /\ inventory_levels = last.pre.inv
          /\ transfers_confirmed = last.pre.trs

\* C6 witness: a batch that moved stock has been submitted again with the same
\* idem_prefix and its rows came back as duplicates.
TransferBatchReplayed ==
    /\ last.args.op = "transfers"
    /\ last.repeat
    /\ last.first.pc = "returned" /\ last.first.applied > 0
    /\ last.out.pc = "returned" /\ last.out.dup > 0
    /\ inventory_levels # seed

\* C7 (as claimed): save_orders and save_transfers never raise because of a
\* duplicate key, insufficient stock or a self-transfer, on SQLite and on
\* PostgreSQL: with no infrastructure failure every call returns its counters.
NoCallRaises == last.out.pc # "raised"

\* C8 (as claimed): after a call returns, every row it counted as new or applied
\* has its record and its ledger effect committed: the OrderRecords added are
\* as many as new_count, and every on_hand is its value before the call plus
\* the quantities of the applied rows into it minus those out of it.
CountedRowsAreCommitted ==
    last.out.pc = "returned"
    => /\ last.args.op = "orders"
          => Cardinality(orders_confirmed \ last.pre.ords) = last.out.nuevos
       /\ last.args.op = "transfers"
          => \A k \in LedgerKeys :
                OnHandOf(inventory_levels, k) = OnHandOf(last.pre.inv, k) + last.moved[k]

\* C9 (as claimed): each row is its own transaction: when an infrastructure
\* failure interrupts a call, the TransferRecords of the rows it had finished
\* before stay committed.
FinishedRecords(p) ==
    IF proc[p].l.pc \in {"insert", "commit"} THEN proc[p].w.wtrs
    ELSE proc[p].w.wtrs \ {TransferPayload(proc[p].l.org_id, proc[p].l.idem_prefix,
                                           Head(proc[p].l.rows))}

EarlierRowsSurviveFailure ==
    [][\A p \in Callers :
          (proc'[p].l.error = "OperationalError" /\ proc[p].l.error # "OperationalError")
          => FinishedRecords(p) \subseteq transfers_confirmed']_vars

\* C10 (as claimed): whenever no call is in progress, the committed on_hand of
\* every (org, store, SKU) is its seeded value plus the quantities of all
\* transfers counted as applied into it minus those counted as applied out of it.
LedgerMatchesCountedTransfers ==
    Quiescent
    => \A k \in LedgerKeys : OnHandOf(inventory_levels, k) = OnHandOf(seed, k) + counted[k]

\* C11: within one save_transfers batch the rows are applied strictly in
\* input order: the applied and insufficient counts returned are those obtained
\* by deciding each row against the ledger as left by the rows before it; a row
\* out of a store that an earlier row supplied finds that stock (both rows
\* apply), and a row out of a store that an earlier row drained does not (it is
\* counted insufficient).
RowKey(org, store, sku) == <<org, store, sku>>

Route(r) == <<r.from_store, r.to_store, r.sku_id>>

RECURSIVE InInputOrder(_, _, _, _, _, _)
InInputOrder(org, rows, inv, seen, applied, insufficient) ==
    IF rows = <<>> THEN [applied |-> applied, insufficient |-> insufficient, inv |-> inv]
    ELSE LET r == Head(rows)
             from == RowKey(org, r.from_store, r.sku_id)
             to == RowKey(org, r.to_store, r.sku_id)
         IN  IF r.qty <= 0 \/ r.from_store = r.to_store \/ Route(r) \in seen
             THEN InInputOrder(org, Tail(rows), inv, seen, applied, insufficient)
             ELSE IF OnHandOf(inv, from) >= r.qty
             THEN InInputOrder(org, Tail(rows),
                               [k \in DOMAIN inv \cup {from, to} |->
                                   CASE k = from -> OnHandOf(inv, k) - r.qty
                                     [] k = to -> OnHandOf(inv, k) + r.qty
                                     [] OTHER -> inv[k]],
                               seen \cup {Route(r)}, applied + 1, insufficient)
             ELSE InInputOrder(org, Tail(rows), inv, seen \cup {Route(r)},
                               applied, insufficient + 1)

\* the routes already recorded for the call's org and idem_prefix
RoutesRecorded(trs, org, prefix) ==
    {Route(t) : t \in {x \in trs : x.org_id = org /\ x.idem_key[1] = prefix}}

\* a batch of two rows, both passing the row checks, on different routes
TwoRowBatch ==
    /\ last.args.op = "transfers"
    /\ Len(last.args.rows) = 2
    /\ \A i \in 1..2 : ~TransferRowSkipped(last.args.rows[i])
    /\ Route(last.args.rows[1]) # Route(last.args.rows[2])
    /\ RoutesRecorded(last.pre.trs, last.args.org_id, last.args.idem_prefix) = {}

\* row 1 applies and supplies the source of row 2, which had too little before
SecondRowNeedsReceivedStock ==
    LET r1 == last.args.rows[1]
        r2 == last.args.rows[2]
        had == OnHandOf(last.pre.inv, RowKey(last.args.org_id, r2.from_store, r2.sku_id))
    IN  /\ TwoRowBatch
        /\ r1.to_store = r2.from_store /\ r1.sku_id = r2.sku_id
        /\ OnHandOf(last.pre.inv, RowKey(last.args.org_id, r1.from_store, r1.sku_id)) >= r1.qty
        /\ had < r2.qty /\ r2.qty <= had + r1.qty

\* row 1 applies and drains the source of row 2, which had enough before
SecondRowFindsSourceDrained ==
    LET r1 == last.args.rows[1]
        r2 == last.args.rows[2]
        had == OnHandOf(last.pre.inv, RowKey(last.args.org_id, r1.from_store, r1.sku_id))
    IN  /\ TwoRowBatch
        /\ r1.from_store = r2.from_store /\ r1.sku_id = r2.sku_id
        /\ had >= r1.qty /\ had >= r2.qty /\ had - r1.qty < r2.qty

RowsAppliedInInputOrder ==
    /\ (last.args.op = "transfers" /\ last.out.pc = "returned")
       => LET ref == InInputOrder(last.args.org_id, last.args.rows, last.pre.inv,
                                  RoutesRecorded(last.pre.trs, last.args.org_id,
                                                 last.args.idem_prefix), 0, 0)
          IN  /\ last.out.applied = ref.applied
              /\ last.out.insufficient = ref.insufficient
              /\ last.out.dup = 0
                 => \A k \in LedgerKeys : OnHandOf(inventory_levels, k) = OnHandOf(ref.inv, k)
    /\ SecondRowNeedsReceivedStock
       => /\ last.out.pc = "returned"
          /\ last.out.applied = 2 /\ last.out.insufficient = 0
    /\ SecondRowFindsSourceDrained
       => /\ last.out.pc = "returned"
          /\ last.out.applied = 1 /\ last.out.insufficient = 1

\* C11 witness: a batch has returned (2, 0, 0) whose second row moved out of a
\* store stock that only the first row had brought there.
LaterRowUsedReceivedStock ==
    /\ SecondRowNeedsReceivedStock
    /\ last.out.pc = "returned" /\ last.out.applied = 2
    /\ inventory_levels # last.pre.inv

\* C12: a save_transfers row with from_store = to_store, with qty <= 0, or with
\* a missing or non-numeric qty is skipped silently: no persisted TransferRecord
\* has from_store = to_store or qty <= 0; a batch of such rows only returns
\* (0, 0, 0) and changes no table; and a batch returns what it returns, and
\* leaves the tables it leaves, without those rows (nothing is inserted, created,
\* changed or counted for them, and the other rows are processed all the same).
MustBeSkipped(r) ==
    \/ r.from_store = r.to_store
    \/ r.qty_as \in {"missing", "None", "text", "nan"}
    \/ r.qty_as \in {"int", "str"} /\ r.qty <= 0
    \/ r.qty_as = "float" /\ r.qty < 0

NotToBeSkipped(r) == ~MustBeSkipped(r)

SkippedRowsLeaveNoTrace ==
    /\ \A t \in transfers_confirmed : t.from_store # t.to_store /\ t.qty > 0
    /\ last.args.op = "transfers"
       => LET without == WholeCall("transfers", last.args.org_id, last.args.idem_prefix,
                                   SelectSeq(last.args.rows, NotToBeSkipped),
                                   last.pre, dialect)
          IN  /\ last.out = without.out
              /\ Tables = without.tables
    /\ (/\ last.args.op = "transfers"
        /\ \A i \in 1..Len(last.args.rows) : MustBeSkipped(last.args.rows[i]))
       => /\ last.out.pc = "returned"
          /\ last.out.applied = 0 /\ last.out.dup = 0 /\ last.out.insufficient = 0
          /\ Tables = last.pre

\* C12 witness: a batch whose first row had to be skipped has returned with its
\* second row applied and recorded, and with nothing else recorded.
SkippedRowThenAppliedRow ==
    /\ last.args.op = "transfers"
    /\ Len(last.args.rows) = 2
    /\ MustBeSkipped(last.args.rows[1])
    /\ ~MustBeSkipped(last.args.rows[2])
    /\ last.out.pc = "returned"
    /\ last.out.applied = 1 /\ last.out.dup = 0 /\ last.out.insufficient = 0
    /\ Cardinality(transfers_confirmed) = 1

\* C13: for non-negative inputs enrich_with_rop and suggest_order_for_row both
\* give ROP = max(0, mu_LT + z*sigma_LT), S = max(0, ROP + k*mu_LT) and
\* suggested_qty = max(0, ceil(S - on_hand)) with mu_LT = avg*lead_time_mean and
\* sigma_LT = avg*lead_time_std; for avg = 10, lead time 5 +- 1, service level
\* 0.95, on_hand 20 and k = 1 they give ROP = 66.449, S = 116.449 and 97.
\* (Below z, mu_LT, ROP and S are quantities and sigma_LT is a whole number.)
NonNegativeInput ==
    /\ given.row.avg_daily_sales_28d >= 0
    /\ given.row.lead_time_mean_days >= 0
    /\ given.row.lead_time_std_days >= 0
    /\ given.row.on_hand_units >= 0
    /\ given.order_up_factor >= 0

Scenario1 ==
    [row |-> [avg_daily_sales_28d |-> 10, lead_time_mean_days |-> 5,
              lead_time_std_days |-> 1, on_hand_units |-> 20],
     service_level |-> 9500, order_up_factor |-> 2]

\* n = max(0, ceil(x)) for a quantity x
IsCeilAtLeastZero(n, x) == n >= 0 /\ n * Unit >= x /\ (n > 0 => (n - 1) * Unit < x)

ReorderValues(ROP, S, qty) ==
    LET mu_LT == given.row.avg_daily_sales_28d * given.row.lead_time_mean_days * Unit
        sigma_LT == given.row.avg_daily_sales_28d * given.row.lead_time_std_days
        z == z_from_service_level(given.service_level)
        rop == IF mu_LT + z * sigma_LT >= 0 THEN mu_LT + z * sigma_LT ELSE 0
        s == IF rop + (given.order_up_factor * mu_LT) \div KUnit >= 0
             THEN rop + (given.order_up_factor * mu_LT) \div KUnit ELSE 0
    IN  /\ ROP = rop
        /\ S = s
        /\ IsCeilAtLeastZero(qty, s - given.row.on_hand_units * Unit)

ReorderModelAsStated ==
    /\ (NonNegativeInput /\ result.fn = "enrich_with_rop")
       => ReorderValues(result.ROP, result.S_level, result.suggested_order_qty)
    /\ (NonNegativeInput /\ result.fn = "suggest_order_for_row")
       => ReorderValues(result.ROP, result.S, result.qty)
    /\ (given = Scenario1 /\ result.fn = "enrich_with_rop")
       => /\ result.ROP = 66449 * (Unit \div 1000)
          /\ result.S_level = 116449 * (Unit \div 1000)
          /\ result.suggested_order_qty = 97
    /\ (given = Scenario1 /\ result.fn = "suggest_order_for_row")
       => /\ result.ROP = 66449 * (Unit \div 1000)
          /\ result.S = 116449 * (Unit \div 1000)
          /\ result.qty = 97

\* C13 witness: suggest_order_for_row has returned 97 for the row of scenario 1.
Scenario1Suggests97 ==
    given = Scenario1 /\ result.fn = "suggest_order_for_row" /\ result.qty = 97

\* C14: ROP never decreases when service_level increases, the other inputs
\* fixed: for every p2 >= p1, also outside [0.80, 0.99] where p is clamped,
\* z(p1) <= z(p2) and ROP(p1) <= ROP(p2), in compute_rop_s for every input and in
\* enrich_with_rop for non-negative demand and lead times.
RopMonotoneInServiceLevel ==
    \A p2 \in ServiceLevels :
        p2 >= given.service_level
        => /\ z_from_service_level(given.service_level) <= z_from_service_level(p2)
           /\ result.fn = "suggest_order_for_row"
              => result.ROP <= suggest_order_for_row(given.row, p2, given.order_up_factor).ROP
           /\ (result.fn = "enrich_with_rop" /\ NonNegativeInput)
              => result.ROP <= enrich_with_rop(given.row, p2, given.order_up_factor).ROP

\* C14 witness: a ROP computed at a service level between two anchors of the
\* table, for a row with demand and lead-time variance, is strictly below the
\* ROP of the same row at 0.99.
RopBelowRopAtHigherLevel ==
    /\ result.fn = "suggest_order_for_row"
    /\ given.service_level = 9625
    /\ given.row.avg_daily_sales_28d > 0 /\ given.row.lead_time_std_days > 0
    /\ result.ROP < suggest_order_for_row(given.row, 9900, given.order_up_factor).ROP

RiskLabelByFirstMatch ==
    result.fn = "risk_table"
    => LET x == result.days_of_cover
           below == ~x.inf /\ x.num < given.row.lead_time_mean_days * x.den
           above == x.inf \/ x.num > 45 * x.den
       IN  /\ result.risk \in {"Baja demanda", "Riesgo de quiebre", "Sobrestock", "Normal"}
           /\ given.row.avg_daily_sales_28d = 0 => result.risk = "Baja demanda"
           /\ (given.row.avg_daily_sales_28d # 0 /\ below) => result.risk = "Riesgo de quiebre"
           /\ (given.row.avg_daily_sales_28d # 0 /\ ~below /\ above)
              => result.risk = "Sobrestock"
           /\ (given.row.avg_daily_sales_28d # 0 /\ ~below /\ ~above)
              => result.risk = "Normal"
           /\ given.row.avg_daily_sales_28d > 0
              => /\ ~x.inf
                 /\ x.num * given.row.avg_daily_sales_28d = given.row.on_hand_units * x.den

\* C16 witness: a row without demand holding more stock than any threshold is
\* labelled 'Baja demanda'.
ZeroDemandRowIsLowDemand ==
    /\ result.fn = "risk_table"
    /\ given.row.avg_daily_sales_28d = 0 /\ given.row.on_hand_units = 100
    /\ result.risk = "Baja demanda"

\* C17: in suggest_transfers every proposed row has qty = min(the receiver's
\* remaining need, the donor's remaining surplus) >= 1 when it is assigned, and
\* both remainders go down by qty; so, per SKU, the total proposed into a
\* receiver never exceeds its need_qty and the total proposed out of a donor
\* never exceeds its surplus_qty.  One receiver of need 30 and donors of surplus
\* 10 then 50, without distances, give two rows of 10 and 20.
StoreSkus == BatchStores \X {"K1", "K2"}

RowsOf(table, k) ==
    {i \in 1..Len(table) : table[i].store_id = k[1] /\ table[i].sku_id = k[2]}

NeedBefore ==
    [k \in StoreSkus |->
        IF RowsOf(given.enriched, k) = {} THEN 0
        ELSE need_qty(given.enriched[CHOOSE i \in RowsOf(given.enriched, k) : TRUE])]

SurplusBefore ==
    [k \in StoreSkus |->
        IF RowsOf(given.enriched, k) = {} THEN 0
        ELSE surplus_qty(given.enriched[CHOOSE i \in RowsOf(given.enriched, k) : TRUE])]

RECURSIVE AssignedFromRemainders(_, _, _)
AssignedFromRemainders(rows, need, surplus) ==
    \/ rows = <<>>
    \/ /\ rows # <<>>
       /\ LET x == Head(rows)
              to == <<x.to_store, x.sku_id>>
              from == <<x.from_store, x.sku_id>>
              least == IF need[to] <= surplus[from] THEN need[to] ELSE surplus[from]
          IN  /\ x.qty >= 1
              /\ x.qty = least
              /\ AssignedFromRemainders(Tail(rows), [need EXCEPT ![to] = @ - x.qty],
                                        [surplus EXCEPT ![from] = @ - x.qty])

RECURSIVE TotalInto(_, _)
TotalInto(rows, k) ==
    IF rows = <<>> THEN 0
    ELSE (IF <<Head(rows).to_store, Head(rows).sku_id>> = k THEN Head(rows).qty ELSE 0)
         + TotalInto(Tail(rows), k)

RECURSIVE TotalOutOf(_, _)
TotalOutOf(rows, k) ==
    IF rows = <<>> THEN 0
    ELSE (IF <<Head(rows).from_store, Head(rows).sku_id>> = k THEN Head(rows).qty ELSE 0)
         + TotalOutOf(Tail(rows), k)

NeedThirtySurplusTenThenFifty ==
    /\ Len(given.enriched) = 3
    /\ Len(SelectSeq(given.enriched, IsReceiver)) = 1
    /\ need_qty(SelectSeq(given.enriched, IsReceiver)[1]) = 30
    /\ Len(SelectSeq(given.enriched, IsDonor)) = 2
    /\ surplus_qty(SelectSeq(given.enriched, IsDonor)[1]) = 10
    /\ surplus_qty(SelectSeq(given.enriched, IsDonor)[2]) = 50
    /\ ~given.distances.given
    /\ given.scope = <<NotGiven, NotGiven>>
    /\ given.max_per_sku = 20

ProposedWithinNeedAndSurplus ==
    result.fn = "suggest_transfers"
    => /\ AssignedFromRemainders(result.all, NeedBefore, SurplusBefore)
       /\ \A k \in StoreSkus :
             /\ TotalInto(result.all, k) <= NeedBefore[k]
             /\ TotalOutOf(result.all, k) <= SurplusBefore[k]
       /\ NeedThirtySurplusTenThenFifty
          => /\ Len(result.res) = 2
             /\ result.res[1].qty = 10 /\ result.res[2].qty = 20
             /\ result.res[1].from_store = SelectSeq(given.enriched, IsDonor)[1].store_id
             /\ result.res[2].from_store = SelectSeq(given.enriched, IsDonor)[2].store_id

\* C17 witness: the receiver of need 30 has been proposed 10 from the donor of
\* surplus 10 and 20 from the donor of surplus 50.
TenThenTwentyProposed ==
    /\ result.fn = "suggest_transfers"
    /\ NeedThirtySurplusTenThenFifty
    /\ Len(result.res) = 2
    /\ result.res[1].qty = 10 /\ result.res[2].qty = 20

\* C18 (as claimed): every row returned by suggest_transfers has from_store #
\* to_store and, whenever an allow-list is given, its stores in allowed_stores
\* and its sku_id in allowed_skus; and when a given allow-list leaves no input
\* row, the empty allow-list included, the result is empty.
InAllowedStores(store) == given.scope[1].given => store \in given.scope[1].set

InAllowedSkus(sku) == given.scope[2].given => sku \in given.scope[2].set

ProposalsStayInScope ==
    result.fn = "suggest_transfers"
    => /\ \A i \in 1..Len(result.res) :
             /\ result.res[i].from_store # result.res[i].to_store
             /\ InAllowedStores(result.res[i].from_store)
             /\ InAllowedStores(result.res[i].to_store)
             /\ InAllowedSkus(result.res[i].sku_id)
       /\ (\A i \in 1..Len(given.enriched) :
              ~(InAllowedStores(given.enriched[i].store_id)
                /\ InAllowedSkus(given.enriched[i].sku_id)))
          => result.res = <<>>

\* C19: enforce_orders_scope and enforce_transfers_scope partition their input:
\* every input row is in exactly one of valid and blocked (as many times as in
\* the input: none dropped, none duplicated), and a row is in valid if and only
\* if all its store ids are in allowed_stores and its sku_id is in allowed_skus.
RECURSIVE Occurrences(_, _)
Occurrences(rows, x) ==
    IF rows = <<>> THEN 0
    ELSE (IF Head(rows) = x THEN 1 ELSE 0) + Occurrences(Tail(rows), x)

RowInScope(x) ==
    /\ x.sku_id \in given.allowed_skus
    /\ IF given.fn = "enforce_orders_scope"
       THEN x.store_id \in given.allowed_stores
       ELSE x.from_store \in given.allowed_stores /\ x.to_store \in given.allowed_stores

ScopePartitionsInput ==
    result.fn \in {"enforce_orders_scope", "enforce_transfers_scope"}
    => /\ Len(result.valid) + Len(result.blocked) = Len(given.df)
       /\ \A i \in 1..Len(given.df) :
             /\ Occurrences(result.valid, given.df[i]) + Occurrences(result.blocked, given.df[i])
                   = Occurrences(given.df, given.df[i])
             /\ RowInScope(given.df[i])
                => Occurrences(result.blocked, given.df[i]) = 0
             /\ ~RowInScope(given.df[i])
                => Occurrences(result.valid, given.df[i]) = 0
       /\ \A i \in 1..Len(result.valid) : RowInScope(result.valid[i])
       /\ \A i \in 1..Len(result.blocked) : ~RowInScope(result.blocked[i])

\* C19 witness: enforce_transfers_scope has split a table holding the same row
\* twice and a row whose destination is not allowed into two valid rows and
\* one blocked row.
TransfersSplitTwoValidOneBlocked ==
    /\ result.fn = "enforce_transfers_scope"
    /\ Len(given.df) = 3
    /\ given.df[1] = given.df[3]
    /\ given.df[2].from_store \in given.allowed_stores
    /\ given.df[2].to_store \notin given.allowed_stores
    /\ Len(result.valid) = 2 /\ Len(result.blocked) = 1

\* C20: a ledger row's on_hand is set from the snapshot at most once: a run of
\* main() that starts after the ledger was seeded does not seed it again, and
\* when two sessions of the org start together while one applies a transfer,
\* the seeding never overwrites an on_hand that an applied transfer has changed.
\* As an action formula: a seeding step leaves every existing on_hand as it is.
SeedingStep == \E s \in Callers : session[s] = "seed" /\ session'[s] = "ready"

SeedingNeverOverwrites ==
    [][SeedingStep => \A k \in DOMAIN inventory_levels :
                          inventory_levels'[k] = inventory_levels[k]]_vars

\* a run of main() that starts on a seeded ledger goes on without seeding
LaterStartDoesNotSeed ==
    [][\A s \in Callers :
          (session[s] = "start" /\ inventory_levels # <<>>) => session'[s] # "seed"]_vars

\* a session is about to seed a ledger whose on_hand a transfer has changed
SeedPendingOverAppliedTransfer ==
    \E s \in Callers :
        /\ session[s] = "seed"
        /\ \E k \in DOMAIN inventory_levels : k \in DOMAIN seed /\ inventory_levels[k] # seed[k]

\* C21: negative avg_daily_sales, lead_time_mean_days, lead_time_std_days and
\* on_hand are coerced to 0 before ROP, S and the suggested quantity are
\* computed, in the table path (enrich_with_rop) and in the single-row path
\* (suggest_order_for_row) alike, so each path returns what it returns for the
\* row with its negative values replaced by 0, and both return the same ROP,
\* S and suggested quantity for the same row.
CoercedToZero(row) == [f \in DOMAIN row |-> Max(0, row[f])]

NegativeInputsCoercedInBothPaths ==
    /\ result.fn = "enrich_with_rop"
       => LET single == suggest_order_for_row(given.row, given.service_level,
                                              given.order_up_factor)
          IN  /\ result = enrich_with_rop(CoercedToZero(given.row), given.service_level,
                                          given.order_up_factor)
              /\ result.ROP = single.ROP
              /\ result.S_level = single.S
              /\ result.suggested_order_qty = single.qty
    /\ result.fn = "suggest_order_for_row"
       => result = suggest_order_for_row(CoercedToZero(given.row), given.service_level,
                                         given.order_up_factor)

\* C22: the future-state classification applies the rule of risk_table: for
\* every (store, SKU) whose projected on_hand equals its current on_hand,
\* risk_future equals risk, pairs without sales in the window included (they
\* are "Baja demanda"); so with no confirmed orders and no transfers every
\* per-category delta of the impact summary is 0.
FutureRiskMatchesRisk ==
    result.fn = "summarize_impact"
    => /\ \A i \in 1..Len(result.future_enriched) :
             result.future_enriched[i].on_hand = result.before_enriched[i].on_hand_units
             => result.future_enriched[i].risk_future = result.before_enriched[i].risk
       /\ (given.orders_c = <<>> /\ given.transfers_c = <<>>)
          => \A cat \in RiskCategories : result.impact[cat] = 0

\* C23: compute_future_state reports, for every snapshot row, on_hand_before
\* equal to the snapshot's on_hand_units and delta_on_hand equal to the final
\* projected on_hand (after the transfers, and after the orders when they are
\* included) minus the snapshot's on_hand_units.
FinalOnHand(row) ==
    IF "on_hand_after_orders" \in DOMAIN row THEN row.on_hand_after_orders
    ELSE row.on_hand_after_transfers

DeltaAgainstSnapshot ==
    result.fn = "compute_future_state"
    => \A i \in 1..Len(given.inv_snapshot) :
          /\ result.df[i].on_hand_before = given.inv_snapshot[i].on_hand_units
          /\ result.df[i].delta_on_hand
                = FinalOnHand(result.df[i]) - given.inv_snapshot[i].on_hand_units

\* C24: on_hand_after_transfers is the snapshot with every transfer row applied
\* in order and holds no order quantity, with or without include_orders; with
\* include_orders, on_hand_after_orders is on_hand_after_transfers plus the
\* confirmed order quantity of the (store, SKU); no projected value is negative.
RECURSIVE OrderedQty(_, _, _)
OrderedQty(orders_c, store, sku) ==
    IF orders_c = <<>> THEN 0
    ELSE (IF /\ Head(orders_c).store_id = store /\ Head(orders_c).sku_id = sku
             /\ Head(orders_c).qty_as = "int"
          THEN Head(orders_c).qty ELSE 0)
         + OrderedQty(Tail(orders_c), store, sku)

RECURSIVE AfterTransfers(_, _, _, _)
AfterTransfers(transfers_c, store, sku, on_hand) ==
    IF transfers_c = <<>> THEN on_hand
    ELSE LET t == Head(transfers_c)
             out == IF t.qty_as = "int" /\ t.from_store = store /\ t.sku_id = sku
                    THEN Max(0, on_hand - t.qty) ELSE on_hand
             in == IF t.qty_as = "int" /\ t.to_store = store /\ t.sku_id = sku
                   THEN out + t.qty ELSE out
         IN  AfterTransfers(Tail(transfers_c), store, sku, in)

TransfersThenOrders ==
    result.fn = "compute_future_state"
    => \A i \in 1..Len(given.inv_snapshot) :
          LET snap == given.inv_snapshot[i]
              row == result.df[i]
          IN  /\ row.on_hand_after_transfers
                   = AfterTransfers(given.transfers_c, snap.store_id, snap.sku_id,
                                    snap.on_hand_units)
              /\ "on_hand_after_orders" \in DOMAIN row
                 => row.on_hand_after_orders
                      = row.on_hand_after_transfers
                        + OrderedQty(given.orders_c, snap.store_id, snap.sku_id)
              /\ row.on_hand_after_transfers >= 0
              /\ FinalOnHand(row) >= 0

\* C25: for each SKU, suggest_transfers serves the receivers in descending
\* need_qty, receivers of equal need in input order: of two rows appended for
\* different receivers of one SKU, the earlier one is for the receiver of
\* higher need, or of equal need and earlier in the input table.
InputRow(store, sku) ==
    CHOOSE i \in 1..Len(given.enriched) :
        given.enriched[i].store_id = store /\ given.enriched[i].sku_id = sku

NeedOf(store, sku) == need_qty(given.enriched[InputRow(store, sku)])

\* the part on different needs alone
HigherNeedServedFirst ==
    result.fn = "suggest_transfers"
    => \A i \in 1..Len(result.all), j \in 1..Len(result.all) :
          (i < j /\ result.all[i].sku_id = result.all[j].sku_id)
          => NeedOf(result.all[i].to_store, result.all[i].sku_id)
               >= NeedOf(result.all[j].to_store, result.all[j].sku_id)

ServedInNeedOrder ==
    result.fn = "suggest_transfers"
    => \A i \in 1..Len(result.all), j \in 1..Len(result.all) :
          (/\ i < j
           /\ result.all[i].sku_id = result.all[j].sku_id
           /\ result.all[i].to_store # result.all[j].to_store)
          => LET si == result.all[i].to_store
                 sj == result.all[j].to_store
                 sku == result.all[i].sku_id
             IN  \/ NeedOf(si, sku) > NeedOf(sj, sku)
                 \/ NeedOf(si, sku) = NeedOf(sj, sku) /\ InputRow(si, sku) < InputRow(sj, sku)

\* C26: the candidate donors of a receiver are at most 5 donors of its SKU:
\* where the distance table has rows to the receiver, the up-to-5 donors of
\* smallest distance_km, tried in ascending distance; where there is no
\* distance, the first 5 donors in table order, tried in that order.  So a
\* receiver gets at most 5 rows and no row from a donor beyond its candidates.
IsDonorOf(store, sku) ==
    \E i \in 1..Len(given.enriched) :
        /\ given.enriched[i].store_id = store /\ given.enriched[i].sku_id = sku
        /\ IsDonor(given.enriched[i])

\* the place of a donor among the donors of its SKU, in table order
DonorIndex(store, sku) ==
    Cardinality({i \in 1..InputRow(store, sku) :
                    given.enriched[i].sku_id = sku /\ IsDonor(given.enriched[i])})

KmRows(from, to) ==
    {i \in 1..Len(given.distances.rows) :
        given.distances.rows[i].from_store = from /\ given.distances.rows[i].to_store = to}

Km(from, to) == given.distances.rows[CHOOSE i \in KmRows(from, to) : TRUE].distance_km

HasDistances(to, sku) ==
    /\ given.distances.given
    /\ \E i \in 1..Len(given.distances.rows) :
          /\ given.distances.rows[i].to_store = to
          /\ IsDonorOf(given.distances.rows[i].from_store, sku)

RowsInto(to, sku) ==
    {j \in 1..Len(result.all) : result.all[j].to_store = to /\ result.all[j].sku_id = sku}

NearerDonors(x) ==
    {i \in 1..Len(given.enriched) :
        /\ given.enriched[i].sku_id = x.sku_id
        /\ IsDonor(given.enriched[i])
        /\ KmRows(given.enriched[i].store_id, x.to_store) # {}
        /\ Km(given.enriched[i].store_id, x.to_store) < x.distance_km}

AtMostFiveCandidates ==
    result.fn = "suggest_transfers"
    => \A i \in 1..Len(result.all) :
          LET x == result.all[i]
              later == {j \in RowsInto(x.to_store, x.sku_id) : j > i}
          IN  /\ Cardinality(RowsInto(x.to_store, x.sku_id)) <= 5
              /\ IsDonorOf(x.from_store, x.sku_id)
              /\ IF HasDistances(x.to_store, x.sku_id)
                 THEN /\ KmRows(x.from_store, x.to_store) # {}
                      /\ x.distance_km = Km(x.from_store, x.to_store)
                      /\ Cardinality(NearerDonors(x)) < 5
                      /\ \A j \in later : result.all[j].distance_km >= x.distance_km
                 ELSE /\ x.distance_km = NaN
                      /\ DonorIndex(x.from_store, x.sku_id) <= 5
                      /\ \A j \in later :
                            DonorIndex(result.all[j].from_store, x.sku_id)
                              > DonorIndex(x.from_store, x.sku_id)

\* C26 witness: without distances, a receiver of need 30 has been given 5 from
\* each of the first five donors; the sixth donor has surplus and is not used.
FiveDonorsTriedSixthLeft ==
    /\ result.fn = "suggest_transfers"
    /\ ~given.distances.given
    /\ NeedOf("A", "K1") = 30
    /\ Cardinality(RowsInto("A", "K1")) = 5
    /\ \A j \in RowsInto("A", "K1") : result.all[j].qty = 5
    /\ IsDonorOf("D6", "K1")
    /\ \A j \in 1..Len(result.all) : result.all[j].from_store # "D6"

\* C26 witness of the distance case: the nearest five of six donors, the last
\* in the table among them, have been tried in ascending distance.
NearestFiveTried ==
    /\ result.fn = "suggest_transfers"
    /\ HasDistances("A", "K1")
    /\ Cardinality(RowsInto("A", "K1")) = 5
    /\ \E j \in RowsInto("A", "K1") : result.all[j].from_store = "D6"
    /\ \A j \in 1..Len(result.all) : result.all[j].from_store # "D1"

\* C26 (as claimed): whenever a distance table is supplied, every proposed row
\* comes from one of the up-to-5 donors nearest to its receiver by distance_km.
NearestWheneverDistancesSupplied ==
    result.fn = "suggest_transfers"
    => \A i \in 1..Len(result.all) :
          LET x == result.all[i]
          IN  (given.distances.given /\ given.distances.rows # <<>>)
              => /\ KmRows(x.from_store, x.to_store) # {}
                 /\ x.distance_km = Km(x.from_store, x.to_store)
                 /\ Cardinality(NearerDonors(x)) < 5

\* C27: after suggest_transfers each SKU has at most max_per_sku rows (for
\* max_per_sku > 0); where more were generated, exactly max_per_sku of them are
\* kept and every kept row sorts before every dropped one by distance_km
\* (unknown distance last), then by larger qty; a SKU with no more rows than
\* max_per_sku keeps all of them, whatever is cut from other SKUs.
GeneratedOf(sku) == {i \in 1..Len(result.all) : result.all[i].sku_id = sku}

KeptOf(sku) ==
    {i \in GeneratedOf(sku) : \E j \in 1..Len(result.res) : result.res[j] = result.all[i]}

ReturnedOf(sku) == {j \in 1..Len(result.res) : result.res[j].sku_id = sku}

SortsNoLater(x, y) ==
    \/ NanToNum(x.distance_km) < NanToNum(y.distance_km)
    \/ NanToNum(x.distance_km) = NanToNum(y.distance_km) /\ x.qty >= y.qty

CapKeepsNearest ==
    (result.fn = "suggest_transfers" /\ given.max_per_sku > 0)
    => /\ \A j \in 1..Len(result.res) :
             \E i \in 1..Len(result.all) : result.all[i] = result.res[j]
       /\ \A sku \in {"K1", "K2"} :
             /\ Cardinality(ReturnedOf(sku)) <= given.max_per_sku
             /\ Cardinality(ReturnedOf(sku)) = Cardinality(KeptOf(sku))
             /\ IF Cardinality(GeneratedOf(sku)) > given.max_per_sku
                THEN /\ Cardinality(KeptOf(sku)) = given.max_per_sku
                     /\ \A k \in KeptOf(sku), d \in GeneratedOf(sku) \ KeptOf(sku) :
                           SortsNoLater(result.all[k], result.all[d])
                ELSE KeptOf(sku) = GeneratedOf(sku)

\* C27 witness: with max_per_sku 2, six rows were generated for K1, of which
\* the two of distance 1 are kept (the second generated last), and the two
\* rows of K2 are both returned.
CapCutsOneSkuOnly ==
    /\ result.fn = "suggest_transfers"
    /\ given.max_per_sku = 2
    /\ Cardinality(GeneratedOf("K1")) = 6
    /\ Cardinality(KeptOf("K1")) = 2
    /\ 6 \in KeptOf("K1")
    /\ \A k \in KeptOf("K1") : result.all[k].distance_km = 1
    /\ Cardinality(GeneratedOf("K2")) = 2
    /\ Cardinality(ReturnedOf("K2")) = 2

\* C28: for every call of save_transfers that returns, applied + dup +
\* insufficient is the number of input rows with qty > 0 and from_store #
\* to_store, and the call has added applied + insufficient records to
\* transfers_confirmed; for every call of save_orders that returns, nuevos +
\* duplicados is the number of input rows with qty > 0, and the call has added
\* nuevos records to orders_confirmed.
TransferRowsCounted(rows) ==
    Cardinality({i \in 1..Len(rows) : ~TransferRowSkipped(rows[i])})

OrderRowsCounted(rows) == Cardinality({i \in 1..Len(rows) : QtyOk(rows[i])})

CountersMatchRecords ==
    last.out.pc = "returned"
    => IF last.args.op = "transfers"
       THEN /\ last.out.applied + last.out.dup + last.out.insufficient
                 = TransferRowsCounted(last.args.rows)
            /\ Cardinality(transfers_confirmed \ last.pre.trs)
                 = last.out.applied + last.out.insufficient
       ELSE /\ last.out.nuevos + last.out.duplicados
                 = OrderRowsCounted(last.args.rows)
            /\ Cardinality(orders_confirmed \ last.pre.ords) = last.out.nuevos

\* the same on the counters alone
CountersMatchRows ==
    last.out.pc = "returned"
    => IF last.args.op = "transfers"
       THEN last.out.applied + last.out.dup + last.out.insufficient
              = TransferRowsCounted(last.args.rows)
       ELSE last.out.nuevos + last.out.duplicados
              = OrderRowsCounted(last.args.rows)

\* C29: once a transfer row has been reported insufficient, its idempotency
\* key is consumed: a later call of save_transfers with the same org_id,
\* idem_prefix, from_store, to_store and sku_id moves no stock.  Stated on two
\* calls in a row whose rows all carry one and the same key: if the first
\* returned with a row counted insufficient, the second applies nothing and
\* leaves the ledger as it is.
KeysOf(args) ==
    {<<args.org_id, TransferIdemKey(args.idem_prefix, args.rows[i])>> :
        i \in {j \in 1..Len(args.rows) : ~TransferRowSkipped(args.rows[j])}}

ReportedInsufficient ==
    /\ last.args.op = "transfers"
    /\ last.out.pc = "returned"
    /\ last.out.insufficient >= 1
    /\ Cardinality(KeysOf(last.args)) = 1

InsufficientKeyMovesNoStock ==
    [][(/\ ReportedInsufficient
        /\ ncalls' = ncalls + 1
        /\ last'.args.op = "transfers"
        /\ KeysOf(last'.args) = KeysOf(last.args))
       => /\ last'.out.applied = 0
          /\ \A k \in LedgerKeys :
                OnHandOf(inventory_levels', k) = OnHandOf(inventory_levels, k)]_vars

\* C30: a client that polls with the cursor it was last returned is
\* eventually returned every committed event of its org
EventCommitted(id) == \E r \in events.rows : r.id = id /\ r.org_id = ClientOrg

EventReturned(id) == \E i \in 1..Len(client.got) : client.got[i] = id

EveryEventReturned ==
    \A id \in 1..MaxEvents : EventCommitted(id) ~> EventReturned(id)

\* the same on SQLite, where a writer holds the write lock until it commits
EveryEventReturnedSqlite ==
    \A id \in 1..MaxEvents : (dialect = "sqlite" /\ EventCommitted(id)) ~> EventReturned(id)

\* what the client is returned is in ascending id order, holds no id twice
\* and only committed events of its own org
ReturnedOnceAscendingOwnOrg ==
    /\ \A i, j \in 1..Len(client.got) : i < j => client.got[i] < client.got[j]
    /\ \A i \in 1..Len(client.got) : EventCommitted(client.got[i])
    /\ client.cursor = IF client.got = <<>> THEN 0 ELSE client.got[Len(client.got)]

\* a failed request leaves the cursor where it was
FailedPollKeepsCursor ==
    [][client'.ok = FALSE => client'.cursor = client.cursor /\ client'.evs = <<>>]_vars

\* an event committed below the cursor: no later poll selects it
CommittedBehindCursor ==
    \E id \in 1..MaxEvents :
        EventCommitted(id) /\ ~EventReturned(id) /\ id < client.cursor

====
